---- MODULE Spec2Model ----
(***************************************************************************)
(* Model of the colony planner: static structure layout (planner.storage  *)
(* and its sub-planners), static road layout (planner.road.layout), the   *)
(* usage-driven road planner (planner.road.usage) and the world they      *)
(* observe and mutate (structures, construction sites, controller level). *)
(*                                                                         *)
(* A room is a (GridMax+1) x (GridMax+1) grid; the game engine's room is   *)
(* 50 x 50, so GridMax stands for the literal 49 of the source.            *)
(* Construction sites created by room.createConstructionSite are taken to *)
(* be observable by later lookForAt calls of the same pass.                *)
(***************************************************************************)
EXTENDS Integers, Sequences, FiniteSets, TLC

\* ------------------------------------------------------------------ bounds
GridMax == 4            \* last coordinate of the room grid (49 in the engine)
MaxSiteRoom == 2        \* most construction sites the world may still accept
                        \* when it is short of capacity (ERR_FULL afterwards)
MaxEvents == 2          \* most changes the world makes to a room in one run
Unlimited == 99         \* siteRoom value of a world that accepts everything
Inf == 9999             \* cost of a cell the solver has not reached

\* --------------------------------------------------------- program constants
ROAD_LAYOUT_VERSION == 2
STORAGE_LAYOUT_VERSION == 1
STORAGE_MIN_RCL == 4
LINK_MIN_RCL == 5
EXTRACTOR_MIN_RCL == 6
MAX_RCL == 8

Coords == 0..GridMax
Cells == Coords \X Coords
NoPos == <<>>

Abs(n) == IF n < 0 THEN -n ELSE n
Max2(a, b) == IF a > b THEN a ELSE b
Min2(a, b) == IF a < b THEN a ELSE b

\* RoomPosition.getRangeTo: Chebyshev distance
getRangeTo(p, q) == Max2(Abs(p[1] - q[1]), Abs(p[2] - q[2]))

InBounds(x, y) == ~(x < 0 \/ x > GridMax \/ y < 0 \/ y > GridMax)

\* --------------------------------------------------------------- the zones
\* Zone 1: home at (1,1), control at (4,4), two resource anchors that share
\*         their best adjacent cell (2,1), a bonus-resource anchor at (0,4).
\* Zone 2: home at (2,2), control at (4,0), one resource anchor, no mineral.
\* Zone 3: home at (4,4), control at (0,4), a resource anchor at (0,0) that
\*         walls cut off from the rest of the room, another at (4,1).
Zones == {1, 2}

ZoneDef(z) ==
    IF z = 1
    THEN [walls    |-> {<<2, 0>>, <<3, 0>>, <<3, 2>>, <<0, 4>>},
          swamps   |-> {<<2, 2>>},
          spawn    |-> <<1, 1>>,
          ctrl     |-> <<4, 4>>,
          sources  |-> << <<3, 0>>, <<3, 2>> >>,
          minerals |-> << <<0, 4>> >>]
    ELSE IF z = 2
    THEN [walls    |-> {<<0, 2>>, <<4, 1>>},
          swamps   |-> {<<3, 1>>, <<1, 3>>},
          spawn    |-> <<2, 2>>,
          ctrl     |-> <<4, 0>>,
          sources  |-> << <<0, 2>> >>,
          minerals |-> << >>]
    ELSE [walls    |-> {<<0, 0>>, <<1, 0>>, <<0, 1>>, <<1, 1>>, <<2, 1>>, <<1, 2>>,
                        <<2, 2>>, <<4, 1>>},
          swamps   |-> {},
          spawn    |-> <<4, 4>>,
          ctrl     |-> <<0, 4>>,
          sources  |-> << <<0, 0>>, <<4, 1>> >>,
          minerals |-> << >>]

\* CONTROLLER_STRUCTURES[type][rcl] of the game engine (quota by level)
CONTROLLER_STRUCTURES(type, rcl) ==
    IF rcl < 1 \/ rcl > MAX_RCL THEN 0
    ELSE IF type = "extension" THEN <<0, 5, 10, 20, 30, 40, 50, 60>>[rcl]
    ELSE IF type = "link"      THEN <<0, 0, 0, 0, 2, 3, 4, 6>>[rcl]
    ELSE IF type = "tower"     THEN <<0, 0, 1, 1, 2, 2, 3, 6>>[rcl]
    ELSE IF type = "rampart"   THEN <<0, 2500, 2500, 2500, 2500, 2500, 2500, 2500>>[rcl]
    ELSE 0

VARIABLES
    zone,           \* which zone (terrain and anchors) this room is
    findOrder,      \* order in which room.find(FIND_STRUCTURES) lists a cell's
                    \* structures: "roadsFirst" or "roadsLast"
    rcl,            \* room.controller.level
    my,             \* room.controller.my
    structs,        \* structures in the room: set of [pos, type]
    sites,          \* construction sites in the room: set of [pos, type]
    siteRoom,       \* how many more sites the world accepts (Unlimited: all)
    events,         \* changes the world has made to the room so far
    roadLayout,     \* Memory.roadLayout[room.name]; trunk is not a field of the
                    \* memory: it remembers the storage position the last
                    \* replanning pass laid its roads to (NoPos: none)
    storageLayout,  \* Memory.storageLayout[room.name]
    pc,             \* position of the main loop in the tick
    requests,       \* requests emitted by the last planner call, in order
    settled,        \* static passes completed since the world last changed
    clean,          \* every request of the last static pass is pending or built
    time,           \* Game.time
    roadUsage,      \* Memory.roadUsage[room.name]: entries [key, count] in
                    \* insertion order (the order Object.entries lists them)
    dropped,        \* the entries the last run of the usage planner evicted
    creepPos,       \* creep.pos of every creep
    lastPos,        \* creep.memory._lastPos of every creep
    pathMem,        \* the pathing fields of the memory of creep 1
    lastCall        \* what the last Pathing.moveTo call of creep 1 did

roomVars == <<zone, findOrder, rcl, my, structs, sites, siteRoom, events>>
planVars == <<roadLayout, storageLayout, settled, clean>>
heatVars == <<time, roadUsage, dropped, creepPos, lastPos>>
moveVars == <<pathMem, lastCall>>
vars == <<roomVars, planVars, heatVars, moveVars, pc, requests>>

\* ------------------------------------------------------------- observation
terrainWall(pos) == pos \in ZoneDef(zone).walls
terrainSwamp(pos) == pos \in ZoneDef(zone).swamps

\* room.lookForAt(LOOK_STRUCTURES, pos) / (LOOK_CONSTRUCTION_SITES, pos): types
StructTypesAt(pos) == {s.type : s \in {t \in structs : t.pos = pos}}
SiteTypesAt(ss, pos) == {s.type : s \in {t \in ss : t.pos = pos}}

\* room.find(FIND_MY_SPAWNS)[0]
HasSpawnNever == FALSE
HasSpawn == \E s \in structs : s.type = "spawn"
SpawnPos == ZoneDef(zone).spawn
CtrlPos == ZoneDef(zone).ctrl
Sources == ZoneDef(zone).sources
Minerals == ZoneDef(zone).minerals

\* room.storage
HasStorage == \E s \in structs : s.type = "storage"
StoragePosBuilt == (CHOOSE s \in structs : s.type = "storage").pos

CountType(set, type) == Cardinality({s \in set : s.type = type})

\* ----------------------------------------------------------- world mutation
\* A planner call threads a record st through its steps:
\*   st.sites  the construction sites so far,
\*   st.room   the capacity the world has left,
\*   st.log    the requests emitted so far, each with the world's answer.
\* room.createConstructionSite(pos, type): the world answers OK when it has
\* capacity left and the cell hosts neither a structure nor a site of that
\* type; any other answer leaves the room unchanged.  The log keeps, with
\* every request, the world's answer (ok) and whether the cell already hosted
\* a structure or a site of the requested type (dup).
Occupied(st, pos, type) ==
    type \in StructTypesAt(pos) \/ type \in SiteTypesAt(st.sites, pos)

WorldAccepts(st, pos, type) ==
    /\ st.room > 0
    /\ ~Occupied(st, pos, type)

createConstructionSite(st, pos, type) ==
    LET ok == WorldAccepts(st, pos, type)
    IN [st EXCEPT
          !.sites = IF ok THEN @ \cup {[pos |-> pos, type |-> type]} ELSE @,
          !.room  = IF ok /\ @ # Unlimited THEN @ - 1 ELSE @,
          !.log   = Append(@, [pos |-> pos, type |-> type, ok |-> ok,
                               dup |-> Occupied(st, pos, type)])]

\* ---------------------------------------------------------------- helpers
\* entries of a keyed memory object, kept in insertion order
HasKey(seq, id) == \E i \in 1..Len(seq) : seq[i].id = id
Lookup(seq, id) == seq[CHOOSE i \in 1..Len(seq) : seq[i].id = id].pos

\* the (dx, dy) pairs of "for dx in -r..r, for dy in -r..r", in loop order
SquareOffsets(r) ==
    [i \in 1..((2 * r + 1) * (2 * r + 1)) |->
        <<((i - 1) \div (2 * r + 1)) - r, ((i - 1) % (2 * r + 1)) - r>>]

\* ... restricted to the ring |dx| = r or |dy| = r
RingOffsets(r) ==
    LET OnRing(o) == ~(Abs(o[1]) # r /\ Abs(o[2]) # r)
    IN SelectSeq(SquareOffsets(r), OnRing)

\* the eight neighbours of the 3x3 block, centre skipped
AdjacentOffsets ==
    LET NotCentre(o) == ~(o[1] = 0 /\ o[2] = 0)
    IN SelectSeq(SquareOffsets(1), NotCentre)

\* --------------------------------------------- planner.struct.containers.js
ContainerFriendly == {"road", "container", "rampart"}

ContainerSpotLegal(st, x, y) ==
    /\ InBounds(x, y)
    /\ ~terrainWall(<<x, y>>)
    /\ StructTypesAt(<<x, y>>) \subseteq ContainerFriendly
    /\ SiteTypesAt(st.sites, <<x, y>>) \subseteq ContainerFriendly

\* the first legal cell of the 3x3 scan, whatever its range to preferPos
chooseContainerPosFirst(st, targetPos, preferPos) ==
    LET Cand(i) == <<targetPos[1] + AdjacentOffsets[i][1],
                     targetPos[2] + AdjacentOffsets[i][2]>>
        legal == {i \in 1..Len(AdjacentOffsets) :
                     ContainerSpotLegal(st, Cand(i)[1], Cand(i)[2])}
    IN IF legal = {} THEN NoPos
       ELSE Cand(CHOOSE i \in legal : \A j \in legal : i <= j)

\* first cell of the 3x3 scan whose range to preferPos is the least
chooseContainerPos(st, targetPos, preferPos) ==
    LET Cand(i) == <<targetPos[1] + AdjacentOffsets[i][1],
                     targetPos[2] + AdjacentOffsets[i][2]>>
        legal == {i \in 1..Len(AdjacentOffsets) :
                     ContainerSpotLegal(st, Cand(i)[1], Cand(i)[2])}
        Dist(i) == getRangeTo(preferPos, Cand(i))
    IN IF legal = {} THEN NoPos
       ELSE Cand(CHOOSE i \in legal :
                    \A j \in legal : Dist(i) < Dist(j) \/ (Dist(i) = Dist(j) /\ i <= j))

\* "ensure structure/site still exists at stored position"
EnsureContainerAtAlways(st, pos) == createConstructionSite(st, pos, "container")
EnsureContainerAt(st, pos) ==
    IF "container" \notin StructTypesAt(pos) /\ "container" \notin SiteTypesAt(st.sites, pos)
    THEN createConstructionSite(st, pos, "container")
    ELSE st

RECURSIVE SourceContainers(_, _)
SourceContainers(st, i) ==
    IF i > Len(Sources) THEN st
    ELSE IF HasKey(st.layout.sourceContainers, i)
    THEN SourceContainers(
             EnsureContainerAt(st, Lookup(st.layout.sourceContainers, i)), i + 1)
    ELSE LET containerPos == chooseContainerPos(st, Sources[i], SpawnPos)
         IN IF containerPos = NoPos THEN SourceContainers(st, i + 1)
            ELSE SourceContainers(
                     createConstructionSite(
                         [st EXCEPT !.layout.sourceContainers =
                                       Append(@, [id |-> i, pos |-> containerPos])],
                         containerPos, "container"),
                     i + 1)

\* the controller's container without the re-request at the recorded cell
ControllerContainerOnce(st) ==
    IF st.layout.controllerContainer # NoPos THEN st
    ELSE LET ctrlContainerPos == chooseContainerPos(st, CtrlPos, SpawnPos)
         IN IF ctrlContainerPos = NoPos THEN st
            ELSE createConstructionSite(
                     [st EXCEPT !.layout.controllerContainer = ctrlContainerPos],
                     ctrlContainerPos, "container")

ControllerContainer(st) ==
    IF st.layout.controllerContainer # NoPos
    THEN EnsureContainerAt(st, st.layout.controllerContainer)
    ELSE LET ctrlContainerPos == chooseContainerPos(st, CtrlPos, SpawnPos)
         IN IF ctrlContainerPos = NoPos THEN st
            ELSE createConstructionSite(
                     [st EXCEPT !.layout.controllerContainer = ctrlContainerPos],
                     ctrlContainerPos, "container")

ContainersPlannerAnywhere(st) == ControllerContainer(SourceContainers(st, 1))
ContainersPlanner(st) ==
    IF ~HasSpawn THEN st
    ELSE ControllerContainer(SourceContainers(st, 1))

\* ------------------------------------- planner.struct.storage (same file)
isWalkableForStorage(st, x, y) ==
    /\ InBounds(x, y)
    /\ ~terrainWall(<<x, y>>)
    /\ StructTypesAt(<<x, y>>) \subseteq {"road", "container"}
    /\ SiteTypesAt(st.sites, <<x, y>>) = {}

StorageOffsets ==
    << <<1, 0>>, <<-1, 0>>, <<0, 1>>, <<0, -1>>,
       <<1, 1>>, <<1, -1>>, <<-1, 1>>, <<-1, -1>> >> \o RingOffsets(2) \o RingOffsets(3)

\* immediate neighbours first, then the rings of radius 2 and 3
SearchStoragePos(st) ==
    LET Cand(i) == <<SpawnPos[1] + StorageOffsets[i][1],
                     SpawnPos[2] + StorageOffsets[i][2]>>
        ok == {i \in 1..Len(StorageOffsets) :
                  isWalkableForStorage(st, Cand(i)[1], Cand(i)[2])}
    IN IF ok = {} THEN NoPos
       ELSE Cand(CHOOSE i \in ok : \A j \in ok : i <= j)

StorageStructPlanner(st, level) ==
    IF level < STORAGE_MIN_RCL \/ ~HasSpawn THEN st
    ELSE LET storagePos == IF HasStorage THEN StoragePosBuilt
                           ELSE IF st.layout.storagePos # NoPos THEN st.layout.storagePos
                           ELSE SearchStoragePos(st)
         IN IF storagePos = NoPos THEN st
            ELSE LET st1 == [st EXCEPT !.layout.storagePos = storagePos]
                 IN IF ~HasStorage
                       /\ "storage" \notin StructTypesAt(storagePos)
                       /\ "storage" \notin SiteTypesAt(st1.sites, storagePos)
                    THEN createConstructionSite(st1, storagePos, "storage")
                    ELSE st1

LastOk(st) == Len(st.log) > 0 /\ st.log[Len(st.log)].ok

\* TLC evaluates operator arguments by need.  Evaluated(st) is TRUE of every
\* st; a loop tests it so that each iteration is evaluated before the next
\* one starts.
Evaluated(st) == Len(st.log) >= 0

\* --------------------------------- planner.struct.extensions (part_010)
isGoodExtensionSpot(st, x, y) ==
    /\ InBounds(x, y)
    /\ ~terrainWall(<<x, y>>)
    /\ ~(SpawnPos[1] = x /\ SpawnPos[2] = y)
    /\ StructTypesAt(<<x, y>>) \subseteq {"road", "container"}
    /\ SiteTypesAt(st.sites, <<x, y>>) = {}

\* rings of radius 2..6 around the spawn, in loop order
ExtensionOffsets ==
    RingOffsets(2) \o RingOffsets(3) \o RingOffsets(4) \o RingOffsets(5) \o RingOffsets(6)

\* the offsets that land inside the room, in loop order (the others fail the
\* first test of isGoodExtensionSpot and are skipped)
ExtensionOffsetsInRoom ==
    LET Lands(o) == InBounds(SpawnPos[1] + o[1], SpawnPos[2] + o[2])
    IN SelectSeq(ExtensionOffsets, Lands)

RECURSIVE PlaceExtensions(_, _, _, _)
PlaceExtensions(st, remaining, offsets, i) ==
    IF i > Len(offsets) \/ ~(remaining > 0) THEN st
    ELSE LET x == SpawnPos[1] + offsets[i][1]
             y == SpawnPos[2] + offsets[i][2]
         IN IF ~isGoodExtensionSpot(st, x, y) THEN PlaceExtensions(st, remaining, offsets, i + 1)
            ELSE LET st1 == createConstructionSite(st, <<x, y>>, "extension")
                 IN IF LastOk(st1) THEN PlaceExtensions(st1, remaining - 1, offsets, i + 1)
                    ELSE PlaceExtensions(st1, remaining, offsets, i + 1)

ExtensionsPlannerNoCount(st, level) ==
    LET allowed == CONTROLLER_STRUCTURES("extension", level)
    IN IF allowed <= 0 \/ ~HasSpawn THEN st
       ELSE PlaceExtensions(st, allowed, ExtensionOffsetsInRoom, 1)
ExtensionsPlanner(st, level) ==
    LET allowed == CONTROLLER_STRUCTURES("extension", level)
        existing == CountType(structs, "extension")
        pending == CountType(st.sites, "extension")
        remaining == allowed - existing - pending
    IN IF allowed <= 0 \/ remaining <= 0 \/ ~HasSpawn THEN st
       ELSE PlaceExtensions(st, remaining, ExtensionOffsetsInRoom, 1)

\* -------------------------------------- planner.struct.links (part_007)
validSpot(st, pos) ==
    /\ InBounds(pos[1], pos[2])
    /\ ~terrainWall(pos)
    /\ StructTypesAt(pos) \subseteq {"road", "container"}
    /\ SiteTypesAt(st.sites, pos) = {}

chooseNear(st, targetPos) ==
    LET Cand(i) == <<targetPos[1] + AdjacentOffsets[i][1],
                     targetPos[2] + AdjacentOffsets[i][2]>>
        valid == {i \in 1..Len(AdjacentOffsets) : validSpot(st, Cand(i))}
        Dist(i) == getRangeTo(SpawnPos, Cand(i))
    IN IF valid = {} THEN NoPos
       ELSE Cand(CHOOSE i \in valid :
                    \A j \in valid : Dist(i) < Dist(j) \/ (Dist(i) = Dist(j) /\ i <= j))

\* a link planner step carries the remaining quota next to st
ControllerLink(sr) ==
    IF sr.remaining > 0 /\ sr.st.layout.links.controller = NoPos
    THEN LET basePos == IF sr.st.layout.controllerContainer # NoPos
                        THEN sr.st.layout.controllerContainer ELSE CtrlPos
             pos == chooseNear(sr.st, basePos)
         IN IF pos = NoPos THEN sr
            ELSE LET st1 == createConstructionSite(sr.st, pos, "link")
                 IN IF LastOk(st1)
                    THEN [st |-> [st1 EXCEPT !.layout.links.controller = pos],
                          remaining |-> sr.remaining - 1]
                    ELSE [sr EXCEPT !.st = st1]
    ELSE sr

StorageLink(sr) ==
    IF sr.remaining > 0 /\ sr.st.layout.storagePos # NoPos
                        /\ sr.st.layout.links.storage = NoPos
    THEN LET pos == chooseNear(sr.st, sr.st.layout.storagePos)
         IN IF pos = NoPos THEN sr
            ELSE LET st1 == createConstructionSite(sr.st, pos, "link")
                 IN IF LastOk(st1)
                    THEN [st |-> [st1 EXCEPT !.layout.links.storage = pos],
                          remaining |-> sr.remaining - 1]
                    ELSE [sr EXCEPT !.st = st1]
    ELSE sr

RECURSIVE SourceLinks(_, _)
SourceLinks(sr, i) ==
    IF i > Len(sr.st.layout.sourceContainers) \/ sr.remaining <= 0 THEN sr
    ELSE LET srcId == sr.st.layout.sourceContainers[i].id
             cPos == sr.st.layout.sourceContainers[i].pos
         IN IF HasKey(sr.st.layout.links.sources, srcId) THEN SourceLinks(sr, i + 1)
            ELSE LET pos == chooseNear(sr.st, cPos)
                 IN IF pos = NoPos THEN SourceLinks(sr, i + 1)
                    ELSE LET st1 == createConstructionSite(sr.st, pos, "link")
                         IN IF LastOk(st1)
                            THEN SourceLinks(
                                     [st |-> [st1 EXCEPT !.layout.links.sources =
                                                 Append(@, [id |-> srcId, pos |-> pos])],
                                      remaining |-> sr.remaining - 1], i + 1)
                            ELSE SourceLinks([sr EXCEPT !.st = st1], i + 1)

LinksPlanner(st, level) ==
    LET allowed == CONTROLLER_STRUCTURES("link", level)
        existing == CountType(structs, "link")
        pending == CountType(st.sites, "link")
        remaining == allowed - existing - pending
    IN IF allowed = 0 \/ level < LINK_MIN_RCL \/ remaining <= 0 \/ ~HasSpawn THEN st
       ELSE SourceLinks(StorageLink(ControllerLink(
                [st |-> st, remaining |-> remaining])), 1).st

\* ------------------------------------ planner.struct.extractor (part_005)
ExtractorPlanner(st, level) ==
    IF level < EXTRACTOR_MIN_RCL \/ Len(Minerals) = 0 THEN st
    ELSE LET pos == Minerals[1]
         IN IF "extractor" \notin StructTypesAt(pos)
               /\ "extractor" \notin SiteTypesAt(st.sites, pos)
            THEN createConstructionSite(st, pos, "extractor")
            ELSE st

\* ------------------------------------------------------ planner.storage.js
\* the version / level bookkeeping of StoragePlanner.planLayout
StorageMetaOffByOne(layout, level) ==
    [layout EXCEPT !.plannedVersion = STORAGE_LAYOUT_VERSION, !.lastRCL = level + 1]
StorageMeta(layout, level) ==
    LET needsVersionUpdate == layout.plannedVersion < STORAGE_LAYOUT_VERSION
        rclChanged == layout.lastRCL # level
    IN IF needsVersionUpdate \/ rclChanged
       THEN [layout EXCEPT !.plannedVersion = STORAGE_LAYOUT_VERSION, !.lastRCL = level]
       ELSE layout

StoragePlannerLayout(st, level) ==
    ExtractorPlanner(
      LinksPlanner(
        ExtensionsPlanner(
          StorageStructPlanner(
            ContainersPlanner([st EXCEPT !.layout = StorageMeta(@, level)]),
            level),
          level),
        level),
      level)

\* ------------------------------------------------ PathFinder.search (engine)
\* The solver returns a lowest-cost route from `from` to within `range` of
\* `to`, the origin excluded, and the empty route when the origin already is
\* in range.  When it reaches no cell in range it returns the route to the
\* cell nearest to the target that it has seen, marked incomplete.  A
\* cost-matrix entry of 0 means "use the terrain cost"; 255 and terrain walls
\* are impassable.
BLOCKED == 255

CellIndex(c) == c[1] * (GridMax + 1) + c[2]
NeighborsOf == [c \in Cells |-> {n \in Cells : getRangeTo(n, c) = 1}]

SetMin(S) == CHOOSE x \in S : \A y \in S : x <= y
FirstCell(S) == CHOOSE c \in S : \A e \in S : CellIndex(c) <= CellIndex(e)

StepCost(cm, plainCost, swampCost) ==
    [c \in Cells |->
        IF cm[c] # 0 THEN cm[c]
        ELSE IF terrainWall(c) THEN BLOCKED
        ELSE IF terrainSwamp(c) THEN swampCost
        ELSE plainCost]

RECURSIVE Relax(_, _, _)
Relax(d, cost, n) ==
    LET d2 == [c \in Cells |->
                  IF cost[c] >= BLOCKED THEN d[c]
                  ELSE Min2(d[c], SetMin({d[m] : m \in NeighborsOf[c]}) + cost[c])]
    IN IF n = 0 \/ d2 = d THEN d ELSE Relax(d2, cost, n - 1)

\* least total cost from `from` to every cell (Inf and above: unreachable)
DistFrom(from, cost) ==
    Relax([c \in Cells |-> IF c = from THEN 0 ELSE Inf], cost, Cardinality(Cells))

RECURSIVE TraceBack(_, _, _, _)
TraceBack(d, cost, c, acc) ==
    IF d[c] = 0 THEN acc
    ELSE TraceBack(d, cost,
                   FirstCell({m \in NeighborsOf[c] : d[m] + cost[c] = d[c]}),
                   <<c>> \o acc)

\* Config.PATHING.MAX_OPS
MAX_OPS == 2000

\* The result of a search that may spend maxOps operations: the search has
\* seen the cells whose least cost from the origin is at most maxOps.  With a
\* goal cell among them the route to the cheapest goal is returned; without
\* one the result is incomplete and holds the route to the seen cell nearest
\* to the target (the empty route when that is the origin).
SearchResult(d, cost, to, range, maxOps) ==
    LET seen == {c \in Cells : d[c] < Inf /\ d[c] <= maxOps}
        goals == {g \in seen : getRangeTo(g, to) <= range}
    IN IF goals # {}
       THEN LET best == SetMin({d[g] : g \in goals})
            IN [path |-> TraceBack(d, cost, FirstCell({g \in goals : d[g] = best}), << >>),
                incomplete |-> FALSE]
       ELSE LET near == SetMin({getRangeTo(c, to) : c \in seen})
                ring == {c \in seen : getRangeTo(c, to) = near}
                best == SetMin({d[c] : c \in ring})
            IN [path |-> TraceBack(d, cost, FirstCell({c \in ring : d[c] = best}), << >>),
                incomplete |-> TRUE]

PathTo(d, cost, to, range) == SearchResult(d, cost, to, range, MAX_OPS).path

\* --------------------------------------------------- planner.road.layout.js
\* the CostMatrix built by the roomCallback: the last structure listed on a
\* cell decides its entry
LayoutCostMatrix ==
    [c \in Cells |->
        LET types == StructTypesAt(c)
            blocking == types \ {"road", "container", "rampart"}
        IN IF "road" \in types /\ blocking # {}
           THEN (IF findOrder = "roadsLast" THEN 1 ELSE BLOCKED)
           ELSE IF "road" \in types THEN 1
           ELSE IF blocking # {} THEN BLOCKED
           ELSE 0]

tryPlaceRoad(st, x, y) ==
    IF ~InBounds(x, y) THEN st
    ELSE IF terrainWall(<<x, y>>) THEN st
    ELSE IF ~(StructTypesAt(<<x, y>>) \subseteq {"road", "container"}) THEN st
    ELSE IF "road" \in SiteTypesAt(st.sites, <<x, y>>) THEN st
    ELSE createConstructionSite(st, <<x, y>>, "road")

PlazaOffsets == AdjacentOffsets \o RingOffsets(2)

RECURSIVE planSpawnPlaza(_, _)
planSpawnPlaza(st, i) ==
    IF i > Len(PlazaOffsets) THEN st
    ELSE LET st1 == tryPlaceRoad(st, SpawnPos[1] + PlazaOffsets[i][1],
                                     SpawnPos[2] + PlazaOffsets[i][2])
         IN IF Evaluated(st1) THEN planSpawnPlaza(st1, i + 1) ELSE st1

\* the per-step legality screen of _planRoadBetween
RoadStepSkipped(st, c) ==
    \/ terrainWall(c)
    \/ c = CtrlPos
    \/ (HasSpawn /\ c = SpawnPos)
    \/ "road" \in StructTypesAt(c)
    \/ "road" \in SiteTypesAt(st.sites, c)

RECURSIVE PaveRoute(_, _, _)
PaveRoute(st, path, i) ==
    IF i > Len(path) THEN st
    ELSE IF RoadStepSkipped(st, path[i]) THEN PaveRoute(st, path, i + 1)
    ELSE LET st1 == createConstructionSite(st, path[i], "road")
         IN IF Evaluated(st1) THEN PaveRoute(st1, path, i + 1) ELSE st1

\* _planRoadBetween with the distances from its origin already computed
planRoadBetween(st, d, cost, toPos) == PaveRoute(st, PathTo(d, cost, toPos, 1), 1)

RECURSIVE planRoadsToEach(_, _, _, _, _)
planRoadsToEach(st, d, cost, targets, i) ==
    IF i > Len(targets) THEN st
    ELSE LET st1 == planRoadBetween(st, d, cost, targets[i])
         IN IF Evaluated(st1) THEN planRoadsToEach(st1, d, cost, targets, i + 1) ELSE st1

RECURSIVE planRoadsFromEach(_, _, _, _, _)
planRoadsFromEach(st, cost, origins, toPos, i) ==
    IF i > Len(origins) THEN st
    ELSE LET st1 == planRoadBetween(st, DistFrom(origins[i], cost), cost, toPos)
         IN IF Evaluated(st1) THEN planRoadsFromEach(st1, cost, origins, toPos, i + 1)
            ELSE st1

\* storage position known to the road planner: built, else planned
RoadStoragePos ==
    IF HasStorage THEN StoragePosBuilt ELSE storageLayout.storagePos

RoadTriggeredAlways == TRUE
RoadTriggered == ~(roadLayout.lastRCL = rcl /\ roadLayout.plannedVersion >= ROAD_LAYOUT_VERSION)

\* the body of RoadLayoutPlanner.planLayout once the trigger holds and a
\* spawn exists; storagePos is read from Memory as the storage planner left it
RoadLayoutBody(st, storagePos) ==
    LET cost == StepCost(LayoutCostMatrix, 2, 5)
        dSpawn == DistFrom(SpawnPos, cost)
        s1 == planSpawnPlaza(st, 1)
        s2 == planRoadBetween(s1, dSpawn, cost, CtrlPos)
        s3 == planRoadsToEach(s2, dSpawn, cost, Sources, 1)
        s4 == planRoadsFromEach(s3, cost, Sources, CtrlPos, 1)
    IN IF storagePos = NoPos THEN s4
       ELSE LET dStore == DistFrom(storagePos, cost)
                s5 == planRoadBetween(s4, dSpawn, cost, storagePos)
                s6 == planRoadBetween(s5, dStore, cost, CtrlPos)
                s7 == planRoadsToEach(s6, dStore, cost, Sources, 1)
            IN planRoadsToEach(s7, dStore, cost, Minerals, 1)

\* ------------------------------------------- planner.defense (part_002)
MIN_RCL == 3
MAX_BORDER_SITES_PER_TICK == 8
MAX_TOWER_SITES_PER_TICK == 1

\* the tryPlace closure: b carries st, created, remaining and the used set
tryPlaceRampart(b, x, y) ==
    IF b.created >= MAX_BORDER_SITES_PER_TICK \/ b.remaining <= 0 THEN b
    ELSE IF ~InBounds(x, y) THEN b
    ELSE IF terrainWall(<<x, y>>) THEN b
    ELSE IF <<x, y>> \in b.used THEN b
    ELSE LET b1 == [b EXCEPT !.used = @ \cup {<<x, y>>}]
         IN IF "rampart" \in StructTypesAt(<<x, y>>) THEN b1
            ELSE IF "rampart" \in SiteTypesAt(b.st.sites, <<x, y>>) THEN b1
            ELSE LET st1 == createConstructionSite(b.st, <<x, y>>, "rampart")
                 IN IF LastOk(st1)
                    THEN [b1 EXCEPT !.st = st1, !.created = @ + 1, !.remaining = @ - 1]
                    ELSE [b1 EXCEPT !.st = st1]

\* top / bottom edges: x = 0..GridMax, building inward at y = 1 / GridMax - 1
RECURSIVE BorderRows(_, _)
BorderRows(b, x) ==
    IF ~(x < GridMax + 1 /\ b.created < MAX_BORDER_SITES_PER_TICK /\ b.remaining > 0)
    THEN b
    ELSE LET b1 == IF ~terrainWall(<<x, 0>>) THEN tryPlaceRampart(b, x, 1) ELSE b
             b2 == IF ~terrainWall(<<x, GridMax>>)
                   THEN tryPlaceRampart(b1, x, GridMax - 1) ELSE b1
         IN IF Evaluated(b2.st) THEN BorderRows(b2, x + 1) ELSE b2

\* left / right edges: y = 1..GridMax-1, building inward at x = 1 / GridMax - 1
RECURSIVE BorderCols(_, _)
BorderCols(b, y) ==
    IF ~(y < GridMax /\ b.created < MAX_BORDER_SITES_PER_TICK /\ b.remaining > 0)
    THEN b
    ELSE LET b1 == IF ~terrainWall(<<0, y>>) THEN tryPlaceRampart(b, 1, y) ELSE b
             b2 == IF ~terrainWall(<<GridMax, y>>)
                   THEN tryPlaceRampart(b1, GridMax - 1, y) ELSE b1
         IN IF Evaluated(b2.st) THEN BorderCols(b2, y + 1) ELSE b2

\* _planRampartBorders without the loop over the left and right edges
planRampartBordersRows(st, level) ==
    LET allowed == CONTROLLER_STRUCTURES("rampart", level)
        existing == CountType(structs, "rampart")
        pending == CountType(st.sites, "rampart")
        remaining == allowed - existing - pending
    IN IF allowed <= 0 \/ remaining <= 0 THEN st
       ELSE BorderRows([st |-> st, created |-> 0,
                        remaining |-> remaining, used |-> {}], 0).st

planRampartBorders(st, level) ==
    LET allowed == CONTROLLER_STRUCTURES("rampart", level)
        existing == CountType(structs, "rampart")
        pending == CountType(st.sites, "rampart")
        remaining == allowed - existing - pending
    IN IF allowed <= 0 \/ remaining <= 0 THEN st
       ELSE BorderCols(BorderRows([st |-> st, created |-> 0,
                                   remaining |-> remaining, used |-> {}], 0), 1).st

TowerOffsets ==
    << <<2, 0>>, <<-2, 0>>, <<0, 2>>, <<0, -2>>,
       <<2, 2>>, <<2, -2>>, <<-2, 2>>, <<-2, -2>> >>

\* the cell at the i-th tower offset from the spawn
TowerCell(i) == <<SpawnPos[1] + TowerOffsets[i][1], SpawnPos[2] + TowerOffsets[i][2]>>

RECURSIVE PlaceTowers(_, _)
PlaceTowers(b, i) ==
    IF ~(i <= Len(TowerOffsets) /\ b.created < MAX_TOWER_SITES_PER_TICK /\ b.remaining > 0)
    THEN b
    ELSE LET x == SpawnPos[1] + TowerOffsets[i][1]
             y == SpawnPos[2] + TowerOffsets[i][2]
         IN IF ~InBounds(x, y) THEN PlaceTowers(b, i + 1)
            ELSE IF terrainWall(<<x, y>>) THEN PlaceTowers(b, i + 1)
            ELSE IF ~(StructTypesAt(<<x, y>>) \subseteq {"road", "container"})
                 THEN PlaceTowers(b, i + 1)
            ELSE IF SiteTypesAt(b.st.sites, <<x, y>>) # {} THEN PlaceTowers(b, i + 1)
            ELSE LET st1 == createConstructionSite(b.st, <<x, y>>, "tower")
                 IN IF LastOk(st1)
                    THEN PlaceTowers([b EXCEPT !.st = st1, !.created = @ + 1,
                                               !.remaining = @ - 1], i + 1)
                    ELSE PlaceTowers([b EXCEPT !.st = st1], i + 1)

\* _planTowers without the count of the towers built and pending
planTowersNoQuota(st, level) ==
    IF ~HasSpawn THEN st
    ELSE PlaceTowers([st |-> st, created |-> 0, remaining |-> 1], 1).st

planTowers(st, level) ==
    LET allowed == CONTROLLER_STRUCTURES("tower", level)
        existing == CountType(structs, "tower")
        pending == CountType(st.sites, "tower")
        remaining == allowed - existing - pending
    IN IF allowed <= 0 \/ remaining <= 0 \/ ~HasSpawn THEN st
       ELSE PlaceTowers([st |-> st, created |-> 0, remaining |-> remaining], 1).st

\* planLayout without the test of the level
DefensePlannerLayoutUngated(st, level) ==
    planTowers(planRampartBorders(st, level), level)

DefensePlannerLayout(st, level) ==
    IF level < MIN_RCL THEN st
    ELSE planTowers(planRampartBorders(st, level), level)

\* ---------------------------------------------------- planner.road.usage.js
MIN_USAGE_FOR_ROAD == 20
DECAY_PER_RUN == 1
MAX_CONSTRUCTION_SITES_PER_RUN == 3
TICK_INTERVAL == 5
MAX_TILES_PER_ROOM == 4     \* Config.ROADS.MAX_TILES_PER_ROOM, 500 in config.js,
                            \* scaled to the size of the modelled room

\* Config.POPULATION.maxCreepsForRCL
maxCreepsForRCL(level) ==
    IF level <= 1 THEN 8
    ELSE IF level = 2 THEN 12
    ELSE IF level = 3 THEN 16
    ELSE IF level = 4 THEN 20
    ELSE IF level = 5 THEN 24
    ELSE IF level = 6 THEN 28
    ELSE IF level = 7 THEN 32
    ELSE 36

dynamicMinUsageRaised(level) == MIN_USAGE_FOR_ROAD + 10
dynamicMinUsage(level) ==
    MIN_USAGE_FOR_ROAD + Max2(0, maxCreepsForRCL(level) - 10) * 5

\* the usage object: entries [key, count], keys unique, in insertion order
UsageKeys(u) == {u[i].key : i \in 1..Len(u)}
UsageCount(u, k) ==
    IF k \in UsageKeys(u) THEN u[CHOOSE i \in 1..Len(u) : u[i].key = k].count ELSE 0
\* usage[key] = v: in place for a key that exists, appended otherwise
UsageSet(u, k, v) ==
    IF k \in UsageKeys(u)
    THEN [i \in 1..Len(u) |-> IF u[i].key = k THEN [key |-> k, count |-> v] ELSE u[i]]
    ELSE Append(u, [key |-> k, count |-> v])
\* delete usage[key]
UsageDeleteKeep(u, k) == u
UsageDelete(u, k) ==
    LET Keep(e) == e.key # k IN SelectSeq(u, Keep)

\* RoadUsagePlanner.trackStep: the usage object after the call
trackStepDwell(u, last, pos) == UsageSet(u, pos, UsageCount(u, pos) + 1)
trackStep(u, last, pos) ==
    IF last = NoPos \/ last[1] # pos[1] \/ last[2] # pos[2]
    THEN UsageSet(u, pos, UsageCount(u, pos) + 1)
    ELSE u

\* entries.sort((a, b) => a[1] - b[1]): ascending by count, ties keep their order
SortByCountNone(e) == e
SortByCount(e) ==
    LET Rank(j) == Cardinality({k \in 1..Len(e) : e[k].count < e[j].count})
                   + Cardinality({k \in 1..j : e[k].count = e[j].count})
    IN [r \in 1..Len(e) |-> e[CHOOSE j \in 1..Len(e) : Rank(j) = r]]

\* the hard cap at the head of run: the entries that are dropped and those kept
toDropNone(u) == 0
toDrop(u) == IF Len(u) > MAX_TILES_PER_ROOM THEN Len(u) - MAX_TILES_PER_ROOM ELSE 0
Dropped(u) == IF toDrop(u) = 0 THEN << >> ELSE SubSeq(SortByCount(u), 1, toDrop(u))
Retained(u) == IF toDrop(u) = 0 THEN u ELSE SubSeq(SortByCount(u), toDrop(u) + 1, Len(u))

RECURSIVE DeleteAll(_, _, _)
DeleteAll(u, drop, i) ==
    IF i > Len(drop) THEN u ELSE DeleteAll(UsageDelete(u, drop[i].key), drop, i + 1)

\* "apply decay"
DecayedNoFloor(count) == count - DECAY_PER_RUN
Decayed(count) == Max2(0, count - DECAY_PER_RUN)

\* one iteration of the for loop of run; h carries st, usage and created
RunEntry(h, key, count, level) ==
    LET decayed == Decayed(count)
        h1 == [h EXCEPT !.usage = UsageSet(@, key, decayed)]
    IN IF decayed < dynamicMinUsage(level) THEN h1
       ELSE IF terrainWall(key) THEN [h1 EXCEPT !.usage = UsageDelete(@, key)]
       ELSE IF key = CtrlPos THEN h1
       ELSE IF HasSpawn /\ key = SpawnPos THEN h1
       ELSE IF "road" \in StructTypesAt(key) THEN [h1 EXCEPT !.usage = UsageDelete(@, key)]
       ELSE IF "road" \in SiteTypesAt(h1.st.sites, key) THEN h1
       ELSE LET st1 == createConstructionSite(h1.st, key, "road")
            IN IF LastOk(st1)
               THEN [st |-> st1, usage |-> UsageSet(h1.usage, key, 0),
                     created |-> h1.created + 1]
               ELSE [h1 EXCEPT !.st = st1]

\* "if (created >= maxSitesPerRun) break"
CapReachedLate(created) == created > MAX_CONSTRUCTION_SITES_PER_RUN
CapReached(created) == created >= MAX_CONSTRUCTION_SITES_PER_RUN

RECURSIVE RunLoop(_, _, _, _)
RunLoop(h, entries, i, level) ==
    IF i > Len(entries) \/ CapReached(h.created) THEN h
    ELSE LET h1 == RunEntry(h, entries[i].key, entries[i].count, level)
         IN IF Evaluated(h1.st) THEN RunLoop(h1, entries, i + 1, level) ELSE h1

\* RoadUsagePlanner.run on a tick of the interval, for an owned room
UsageRunBody(st, u, level) ==
    RunLoop([st |-> st, usage |-> DeleteAll(u, Dropped(u), 1), created |-> 0],
            Retained(u), 1, level)

\* ------------------------------------------------------------ util.pathing.js
NoTick == -1

\* creep.memory without _path, _pathTarget, _pathSetTick, _lastMovePos and
\* _stuckTicks; range is not a field of the memory: it remembers the range
\* the cached path was computed for
NoMem ==
    [path |-> << >>, target |-> NoPos, setTick |-> NoTick, range |-> NoTick,
     lastMovePos |-> NoPos, stuckTicks |-> 0]

\* no call has been made yet
NoCall ==
    [result |-> "none", pos |-> NoPos, target |-> NoPos, range |-> NoTick,
     nudged |-> FALSE, dwell |-> 0, still |-> 0, reused |-> FALSE, solver |-> 0, route |-> << >>,
     incomplete |-> FALSE, moves |-> << >>, cached |-> NoPos]

STUCK_TICKS == 3

\* TOP, TOP_RIGHT, RIGHT, BOTTOM_RIGHT, BOTTOM, BOTTOM_LEFT, LEFT, TOP_LEFT
Directions ==
    << <<0, -1>>, <<1, -1>>, <<1, 0>>, <<1, 1>>, <<0, 1>>, <<-1, 1>>, <<-1, 0>>, <<-1, -1>> >>

\* delete creep.memory._path, _pathTarget, _pathSetTick
ClearPathKeepTarget(mem) == [mem EXCEPT !.path = << >>, !.setTick = NoTick]
ClearPath(mem) ==
    [mem EXCEPT !.path = << >>, !.target = NoPos, !.setTick = NoTick, !.range = NoTick]

\* the CostMatrix of moveTo: roads 1, blocking structures and the other
\* creeps 255
MoveCostMatrix(self) ==
    [c \in Cells |->
        LET types == StructTypesAt(c)
            blocking == types \ {"road", "container", "rampart"}
        IN IF \E o \in DOMAIN creepPos : o # self /\ creepPos[o] = c THEN BLOCKED
           ELSE IF "road" \in types /\ blocking # {}
           THEN (IF findOrder = "roadsLast" THEN 1 ELSE BLOCKED)
           ELSE IF "road" \in types THEN 1
           ELSE IF blocking # {} THEN BLOCKED
           ELSE 0]

\* creep.move(direction): the move intent (the cell stepped to), none when tired
move(pos, dir, tired) ==
    IF tired THEN << >>
    ELSE << <<pos[1] + Directions[dir][1], pos[2] + Directions[dir][2]>> >>

\* creep.moveByPath(path): the result code and the move intent
moveByPath(path, pos, tired) ==
    LET on == {i \in 1..Len(path) : path[i] = pos}
        idx == IF on = {} THEN 0 ELSE SetMin(on)
    IN IF Len(path) = 0 THEN [code |-> "ERR_INVALID_ARGS", moves |-> << >>]
       ELSE IF on = {} /\ getRangeTo(path[1], pos) > 1
       THEN [code |-> "ERR_NOT_FOUND", moves |-> << >>]
       ELSE IF idx + 1 > Len(path) THEN [code |-> "ERR_NOT_FOUND", moves |-> << >>]
       ELSE IF tired THEN [code |-> "ERR_TIRED", moves |-> << >>]
       ELSE [code |-> "OK", moves |-> << path[idx + 1] >>]

\* _checkStuck
checkStuckLate(mem, pos, dir, tired) ==
    IF mem.lastMovePos = NoPos \/ mem.lastMovePos # pos
    THEN [mem |-> [mem EXCEPT !.lastMovePos = pos, !.stuckTicks = 0],
          nudged |-> FALSE, moves |-> << >>]
    ELSE IF mem.stuckTicks + 1 > STUCK_TICKS
    THEN [mem |-> ClearPath([mem EXCEPT !.stuckTicks = 0]),
          nudged |-> TRUE, moves |-> move(pos, dir, tired)]
    ELSE [mem |-> [mem EXCEPT !.stuckTicks = @ + 1], nudged |-> FALSE, moves |-> << >>]
checkStuck(mem, pos, dir, tired) ==
    IF mem.lastMovePos = NoPos \/ mem.lastMovePos # pos
    THEN [mem |-> [mem EXCEPT !.lastMovePos = pos, !.stuckTicks = 0],
          nudged |-> FALSE, moves |-> << >>]
    ELSE IF mem.stuckTicks + 1 >= STUCK_TICKS
    THEN [mem |-> ClearPath([mem EXCEPT !.stuckTicks = 0]),
          nudged |-> TRUE, moves |-> move(pos, dir, tired)]
    ELSE [mem |-> [mem EXCEPT !.stuckTicks = @ + 1], nudged |-> FALSE, moves |-> << >>]

\* _useCachedPath
useCachedPath(mem, pos, targetPos, reusePath, now, tired) ==
    IF mem.path = << >> \/ mem.target = NoPos \/ mem.target # targetPos
    THEN [mem |-> mem, used |-> FALSE, moves |-> << >>]
    ELSE IF mem.setTick # NoTick /\ now - mem.setTick > reusePath
    THEN [mem |-> ClearPath(mem), used |-> FALSE, moves |-> << >>]
    ELSE LET res == moveByPath(mem.path, pos, tired)
         IN IF res.code \in {"OK", "ERR_TIRED"}
            THEN [mem |-> mem, used |-> TRUE, moves |-> res.moves]
            ELSE [mem |-> ClearPath(mem), used |-> FALSE, moves |-> << >>]

\* _setCachedPath
setCachedPath(mem, targetPos, path, range, now) ==
    [mem EXCEPT !.path = path, !.target = targetPos, !.setTick = now, !.range = range]

\* Pathing.moveTo for creep `self`: the memory after the call and what the
\* call did.  dwell counts the calls in a row that found the creep on one
\* cell, still those of them that found it where the call before had found
\* it; both start again after a nudge.
moveTo(self, mem, prev, targetPos, range, maxOps, reusePath, now, tired, dir) ==
    LET pos == creepPos[self]
        stayed == prev.result # "none" /\ prev.pos = pos
        dwell == IF ~stayed \/ prev.nudged THEN 1 ELSE prev.dwell + 1
        still == IF ~stayed THEN 0 ELSE IF prev.nudged THEN 1 ELSE prev.still + 1
        s1 == checkStuck(mem, pos, dir, tired)
        s2 == useCachedPath(s1.mem, pos, targetPos, reusePath, now, tired)
        base == [result |-> "OK", pos |-> pos, target |-> targetPos, range |-> range,
                 nudged |-> s1.nudged, dwell |-> dwell, still |-> still,
                 reused |-> s2.used,
                 solver |-> 0, route |-> << >>, incomplete |-> FALSE,
                 moves |-> s1.moves \o s2.moves, cached |-> mem.target]
    IN IF s2.used THEN [mem |-> s2.mem, call |-> base]
       ELSE LET cost == StepCost(MoveCostMatrix(self), 2, 10)
                result == SearchResult(DistFrom(pos, cost), cost, targetPos, range, maxOps)
                found == [base EXCEPT !.solver = 1, !.route = result.path,
                                      !.incomplete = result.incomplete]
            IN IF Len(result.path) = 0
               THEN [mem |-> ClearPath(s2.mem),
                     call |-> [found EXCEPT !.result = "ERR_NO_PATH"]]
               ELSE LET mem3 == setCachedPath(s2.mem, targetPos, result.path, range, now)
                    IN [mem |-> mem3,
                        call |-> [found EXCEPT !.moves =
                                     @ \o moveByPath(mem3.path, pos, tired).moves]]

\* ===================================================== the planning passes
\* main.js _runPlanning calls, for an owned room and in this order,
\* StoragePlanner.planLayout, RoadPlanner.planLayout, RoadPlanner.run and
\* DefensePlanner.planLayout.  pc names the call that comes next.
Begin == [sites |-> sites, room |-> siteRoom, log |-> << >>, layout |-> storageLayout]

\* every request of the log is now a site or a structure of the room
Landed(st) ==
    \A i \in 1..Len(st.log) :
        \/ [pos |-> st.log[i].pos, type |-> st.log[i].type] \in st.sites
        \/ st.log[i].type \in StructTypesAt(st.log[i].pos)

StoragePlanLayout(next) ==
    /\ UNCHANGED moveVars
    /\ pc = "storage"
    /\ LET st == IF my THEN StoragePlannerLayout(Begin, rcl) ELSE Begin
       IN /\ sites' = st.sites
          /\ siteRoom' = st.room
          /\ requests' = st.log
          /\ storageLayout' = st.layout
          /\ clean' = Landed(st)
    /\ pc' = next
    /\ UNCHANGED <<zone, findOrder, rcl, my, structs, events, roadLayout, settled, heatVars>>

RoadPlanLayout(next) ==
    /\ UNCHANGED moveVars
    /\ pc = "road"
    /\ IF my /\ RoadTriggered /\ HasSpawn
       THEN LET st == RoadLayoutBody(Begin, RoadStoragePos)
            IN /\ sites' = st.sites
               /\ siteRoom' = st.room
               /\ requests' = st.log
               /\ clean' = (clean /\ Landed(st))
               /\ roadLayout' = [plannedVersion |-> ROAD_LAYOUT_VERSION, lastRCL |-> rcl,
                                 trunk |-> RoadStoragePos]
       ELSE /\ requests' = << >>
            /\ UNCHANGED <<sites, siteRoom, clean, roadLayout>>
    /\ settled' = Min2(settled + 1, 2)
    /\ pc' = next
    /\ UNCHANGED <<zone, findOrder, rcl, my, structs, events, storageLayout, heatVars>>

DefensePlanLayout(next) ==
    /\ UNCHANGED moveVars
    /\ pc = "defense"
    /\ LET st == IF my THEN DefensePlannerLayout(Begin, rcl) ELSE Begin
       IN /\ sites' = st.sites
          /\ siteRoom' = st.room
          /\ requests' = st.log
    /\ pc' = next
    /\ UNCHANGED <<zone, findOrder, rcl, my, structs, events, planVars, heatVars>>

RunExecutesEveryTick == my
RunExecutes == my /\ time % TICK_INTERVAL = 0

RoadUsageRun(next) ==
    /\ UNCHANGED moveVars
    /\ pc = "usage"
    /\ IF RunExecutes
       THEN LET h == UsageRunBody(Begin, roadUsage, rcl)
            IN /\ sites' = h.st.sites
               /\ siteRoom' = h.st.room
               /\ requests' = h.st.log
               /\ roadUsage' = h.usage
               /\ dropped' = Dropped(roadUsage)
       ELSE /\ requests' = << >>
            /\ dropped' = << >>
            /\ UNCHANGED <<sites, siteRoom, roadUsage>>
    /\ pc' = next
    /\ UNCHANGED <<zone, findOrder, rcl, my, structs, events, planVars,
                   time, creepPos, lastPos>>

\* main.js _runCreepBehavior: RoadPlanner.trackStep for every creep in turn
RECURSIVE TrackAll(_, _)
TrackAll(u, c) ==
    IF c \notin DOMAIN creepPos THEN u
    ELSE TrackAll(trackStep(u, lastPos[c], creepPos[c]), c + 1)

RunCreepBehavior(next) ==
    /\ UNCHANGED moveVars
    /\ pc = "creeps"
    /\ roadUsage' = TrackAll(roadUsage, 1)
    /\ lastPos' = creepPos
    /\ requests' = << >>
    /\ pc' = next
    /\ UNCHANGED <<roomVars, planVars, time, dropped, creepPos>>

\* ============================================================== the world
\* Between two ticks the world may change what the planners observe.
Permanent == {"controller"}

WorldTurn == pc = "world" /\ events < MaxEvents

\* every construction site is completed
BuildAll ==
    /\ UNCHANGED moveVars
    /\ WorldTurn /\ sites # {}
    /\ structs' = structs \cup sites
    /\ sites' = {}
    /\ events' = events + 1
    /\ settled' = 0
    /\ requests' = << >>
    /\ UNCHANGED <<zone, findOrder, rcl, my, siteRoom, roadLayout, storageLayout, clean,
                   heatVars, pc>>

\* everything on one cell is destroyed (structures and sites)
Destroy(c) ==
    /\ UNCHANGED moveVars
    /\ WorldTurn
    /\ \E s \in structs \cup sites : s.pos = c /\ s.type \notin Permanent
    /\ structs' = {s \in structs : s.pos # c \/ s.type \in Permanent}
    /\ sites' = {s \in sites : s.pos # c}
    /\ events' = events + 1
    /\ settled' = 0
    /\ requests' = << >>
    /\ UNCHANGED <<zone, findOrder, rcl, my, siteRoom, roadLayout, storageLayout, clean,
                   heatVars, pc>>

\* the spawn is placed again by the player
SpawnBuilt ==
    /\ UNCHANGED moveVars
    /\ WorldTurn /\ ~HasSpawn
    /\ structs' = structs \cup {[pos |-> SpawnPos, type |-> "spawn"]}
    /\ events' = events + 1
    /\ settled' = 0
    /\ requests' = << >>
    /\ UNCHANGED <<zone, findOrder, rcl, my, sites, siteRoom, roadLayout, storageLayout,
                   clean, heatVars, pc>>

\* the controller gains or loses a level
LevelChange(l) ==
    /\ UNCHANGED moveVars
    /\ WorldTurn /\ my
    /\ l \in 1..MAX_RCL /\ (l = rcl + 1 \/ l = rcl - 1)
    /\ rcl' = l
    /\ events' = events + 1
    /\ settled' = 0
    /\ requests' = << >>
    /\ UNCHANGED <<zone, findOrder, my, structs, sites, siteRoom, roadLayout, storageLayout,
                   clean, heatVars, pc>>

\* the world's capacity for new construction sites changes
Capacity(n) ==
    /\ UNCHANGED moveVars
    /\ WorldTurn
    /\ n # siteRoom
    /\ siteRoom' = n
    /\ events' = events + 1
    /\ requests' = << >>
    /\ UNCHANGED <<zone, findOrder, rcl, my, structs, sites, planVars, heatVars, pc>>

\* the next tick begins
Tick ==
    /\ UNCHANGED moveVars
    /\ pc = "world"
    /\ pc' = "storage"
    /\ requests' = << >>
    /\ UNCHANGED <<roomVars, planVars, heatVars>>

\* cells whose content the world may destroy: the spawn and the recorded
\* buffer cells
Volatile ==
    {SpawnPos}
    \cup {storageLayout.sourceContainers[i].pos : i \in 1..Len(storageLayout.sourceContainers)}
    \cup ({storageLayout.controllerContainer} \ {NoPos})

Capacities == {0, MaxSiteRoom, Unlimited}
InitLevels == 1..6

InitLayoutRecord ==
    [plannedVersion |-> 0, lastRCL |-> 0, storagePos |-> NoPos,
     sourceContainers |-> << >>, controllerContainer |-> NoPos,
     links |-> [controller |-> NoPos, storage |-> NoPos, sources |-> << >>]]

Creeps == {1}

Init ==
    /\ zone \in Zones
    /\ findOrder = "roadsFirst"
    /\ rcl \in InitLevels
    /\ my \in BOOLEAN
    /\ structs = {[pos |-> CtrlPos, type |-> "controller"],
                  [pos |-> SpawnPos, type |-> "spawn"]}
    /\ sites = {}
    /\ siteRoom \in Capacities
    /\ events = 0
    /\ roadLayout = [plannedVersion |-> 0, lastRCL |-> 0, trunk |-> NoPos]
    /\ storageLayout = InitLayoutRecord
    /\ settled = 0
    /\ clean = TRUE
    /\ time = 0
    /\ roadUsage = << >>
    /\ dropped = << >>
    /\ creepPos = [c \in Creeps |-> SpawnPos]
    /\ lastPos = [c \in Creeps |-> NoPos]
    /\ pathMem = NoMem
    /\ lastCall = NoCall
    /\ pc = "storage"
    /\ requests = << >>

Next ==
    \/ StoragePlanLayout("road")
    \/ RoadPlanLayout("defense")
    \/ DefensePlanLayout("world")
    \/ BuildAll
    \/ \E c \in Volatile : Destroy(c)
    \/ SpawnBuilt
    \/ \E l \in 1..MAX_RCL : LevelChange(l)
    \/ \E n \in Capacities : Capacity(n)
    \/ Tick

Spec == Init /\ [][Next]_vars

\* the engine calls the script again on the next tick; that the planners'
\* calls of a tick return is a premise of the properties checked under it
SpecFair == Spec /\ WF_vars(Tick)

\* ================================= a room with a cut-off resource anchor
InitEnclosed ==
    /\ zone = 3
    /\ findOrder = "roadsFirst"
    /\ rcl \in InitLevels
    /\ my = TRUE
    /\ structs = {[pos |-> CtrlPos, type |-> "controller"],
                  [pos |-> SpawnPos, type |-> "spawn"]}
    /\ sites = {}
    /\ siteRoom \in Capacities
    /\ events = 0
    /\ roadLayout = [plannedVersion |-> 0, lastRCL |-> 0, trunk |-> NoPos]
    /\ storageLayout = InitLayoutRecord
    /\ settled = 0
    /\ clean = TRUE
    /\ time = 0
    /\ roadUsage = << >>
    /\ dropped = << >>
    /\ creepPos = [c \in Creeps |-> SpawnPos]
    /\ lastPos = [c \in Creeps |-> NoPos]
    /\ pathMem = NoMem
    /\ lastCall = NoCall
    /\ pc = "storage"
    /\ requests = << >>

SpecEnclosed == InitEnclosed /\ [][Next]_vars

\* ============================================== a room that is built up
\* Rooms in which the player has built before the planners first run: every
\* free cell paved, and an extension on the cell of the first tower offset.
Paved ==
    {[pos |-> c, type |-> "road"] :
        c \in {c \in Cells : ~terrainWall(c) /\ c \notin {SpawnPos, CtrlPos, TowerCell(1)}}}

Prebuilt ==
    { {}, Paved \cup {[pos |-> TowerCell(1), type |-> "extension"]} }

InitBuilt ==
    /\ zone \in Zones
    /\ findOrder \in {"roadsFirst", "roadsLast"}
    /\ rcl \in {3, 4}
    /\ my = TRUE
    /\ structs \in {{[pos |-> CtrlPos, type |-> "controller"],
                     [pos |-> SpawnPos, type |-> "spawn"]} \cup b : b \in Prebuilt}
    /\ sites = {}
    /\ siteRoom \in {MaxSiteRoom, Unlimited}
    /\ events = 0
    /\ roadLayout = [plannedVersion |-> 0, lastRCL |-> 0, trunk |-> NoPos]
    /\ storageLayout = InitLayoutRecord
    /\ settled = 0
    /\ clean = TRUE
    /\ time = 0
    /\ roadUsage = << >>
    /\ dropped = << >>
    /\ creepPos = [c \in Creeps |-> SpawnPos]
    /\ lastPos = [c \in Creeps |-> NoPos]
    /\ pathMem = NoMem
    /\ lastCall = NoCall
    /\ pc = "storage"
    /\ requests = << >>

SpecBuilt == InitBuilt /\ [][Next]_vars

\* ============================================ the usage-driven road planner
\* The creeps walk (the behaviour layer decides where) among the cells of a
\* track; every tick runs RoadPlanner.run and then the tracking of the creeps.
MaxTime == 6

Track == {<<1, 2>>, <<1, 3>>, <<2, 3>>}

E(x, y, n) == [key |-> <<x, y>>, count |-> n]

\* heatmaps a room may have accumulated before the first modelled tick
UsageSeeds ==
    { << >>,
      \* above the cap, four entries past the threshold
      << E(1, 2, 25), E(2, 2, 21), E(2, 4, 3), E(3, 3, 22), E(3, 4, 30), E(0, 3, 2) >>,
      \* a tunnel cell, the control cell, the spawn cell, one entry just short
      << E(2, 0, 25), E(4, 4, 25), E(1, 1, 25), E(1, 2, 20) >>,
      \* at the cap, little used
      << E(2, 2, 0), E(3, 3, 1), E(3, 4, 2), E(2, 4, 1) >> }

\* the tick ends: the creeps have moved, Game.time advances
EndTick(p) ==
    /\ UNCHANGED moveVars
    /\ pc = "world"
    /\ time < MaxTime
    /\ creepPos' = p
    /\ time' = time + 1
    /\ pc' = "usage"
    /\ requests' = << >>
    /\ UNCHANGED <<roomVars, planVars, roadUsage, dropped, lastPos>>

InitUsage ==
    /\ zone = 1
    /\ findOrder = "roadsFirst"
    /\ rcl \in {1, 2}
    /\ my = TRUE
    /\ \E built \in SUBSET {[pos |-> <<2, 2>>, type |-> "road"]} :
          structs = {[pos |-> CtrlPos, type |-> "controller"],
                     [pos |-> SpawnPos, type |-> "spawn"]} \cup built
    /\ sites \in SUBSET {[pos |-> <<3, 3>>, type |-> "road"]}
    /\ siteRoom \in {1, Unlimited}
    /\ events = 0
    /\ roadLayout = [plannedVersion |-> 0, lastRCL |-> 0, trunk |-> NoPos]
    /\ storageLayout = InitLayoutRecord
    /\ settled = 0
    /\ clean = TRUE
    /\ time = 0
    /\ roadUsage \in UsageSeeds
    /\ dropped = << >>
    /\ creepPos \in [Creeps -> Track]
    /\ lastPos = [c \in Creeps |-> NoPos]
    /\ pathMem = NoMem
    /\ lastCall = NoCall
    /\ pc = "usage"
    /\ requests = << >>

NextUsage ==
    \/ RoadUsageRun("creeps")
    \/ RunCreepBehavior("world")
    \/ \E p \in [Creeps -> Track] : EndTick(p)

SpecUsage == InitUsage /\ [][NextUsage]_vars

\* ============================================================ creep movement
\* Creep 1 calls Pathing.moveTo once per tick; creep 2 stands in its way.
MaxMoveTime == 4
ReusePath == 2          \* opts.reusePath of the calls (10 when not given)
SmallOps == 3           \* an opts.maxOps too small to reach a far target

MoveTargets == {<<2, 3>>, <<4, 4>>}
MoveRanges == {0, 1}

MoveTo(targetPos, range, maxOps, tired) ==
    /\ pc = "move"
    /\ \E dir \in (IF pathMem.lastMovePos = creepPos[1]
                        /\ pathMem.stuckTicks + 1 >= STUCK_TICKS
                     THEN DOMAIN Directions ELSE {1}) :
          LET r == moveTo(1, pathMem, lastCall, targetPos, range, maxOps, ReusePath,
                          time, tired, dir)
          IN /\ pathMem' = r.mem
             /\ lastCall' = r.call
    /\ pc' = "step"
    /\ requests' = << >>
    /\ UNCHANGED <<roomVars, planVars, heatVars>>

\* a creep can step onto the cell
Passable(c) ==
    /\ c \in Cells
    /\ ~terrainWall(c)
    /\ StructTypesAt(c) \subseteq {"road", "container", "rampart"}
    /\ \A o \in DOMAIN creepPos : creepPos[o] # c

\* the tick ends: the last move intent of the creep is carried out when the
\* cell is free (goes), or fails
StepTick(goes) ==
    /\ pc = "step"
    /\ time < MaxMoveTime
    /\ LET n == Len(lastCall.moves)
       IN creepPos' = IF goes /\ n > 0 /\ Passable(lastCall.moves[n])
                      THEN [creepPos EXCEPT ![1] = lastCall.moves[n]]
                      ELSE creepPos
    /\ time' = time + 1
    /\ pc' = "move"
    /\ requests' = << >>
    /\ UNCHANGED <<roomVars, planVars, roadUsage, dropped, lastPos, moveVars>>

InitMove ==
    /\ zone = 1
    /\ findOrder = "roadsFirst"
    /\ rcl = 1
    /\ my = TRUE
    /\ structs = {[pos |-> CtrlPos, type |-> "controller"],
                  [pos |-> SpawnPos, type |-> "spawn"]}
    /\ sites = {}
    /\ siteRoom = Unlimited
    /\ events = 0
    /\ roadLayout = [plannedVersion |-> 0, lastRCL |-> 0, trunk |-> NoPos]
    /\ storageLayout = InitLayoutRecord
    /\ settled = 0
    /\ clean = TRUE
    /\ time = 0
    /\ roadUsage = << >>
    /\ dropped = << >>
    /\ creepPos = << <<1, 2>>, <<2, 3>> >>
    /\ lastPos = <<NoPos, NoPos>>
    /\ pathMem = NoMem
    /\ lastCall = NoCall
    /\ pc = "move"
    /\ requests = << >>

NextMove ==
    \/ \E t \in MoveTargets, r \in MoveRanges, ops \in {SmallOps, MAX_OPS}, tired \in BOOLEAN :
          MoveTo(t, r, ops, tired)
    \/ \E goes \in BOOLEAN : StepTick(goes)

SpecMove == InitMove /\ [][NextMove]_vars

\* ======================================================== a creep in tow
\* Creep 1 calls Pathing.moveTo once per tick; creep 2, next to it, may step
\* onto the cell that creep 1 leaves.
FollowTick(goes, follows) ==
    /\ pc = "step"
    /\ time < MaxMoveTime
    /\ LET n == Len(lastCall.moves)
           p1 == IF goes /\ n > 0 /\ Passable(lastCall.moves[n])
                 THEN lastCall.moves[n] ELSE creepPos[1]
           p2 == IF follows /\ p1 # creepPos[1] /\ getRangeTo(creepPos[2], creepPos[1]) = 1
                 THEN creepPos[1] ELSE creepPos[2]
       IN creepPos' = <<p1, p2>>
    /\ time' = time + 1
    /\ pc' = "move"
    /\ requests' = << >>
    /\ UNCHANGED <<roomVars, planVars, roadUsage, dropped, lastPos, moveVars>>

NextFollow ==
    \/ \E t \in MoveTargets, tired \in BOOLEAN : MoveTo(t, 1, MAX_OPS, tired)
    \/ \E goes \in BOOLEAN, follows \in BOOLEAN : FollowTick(goes, follows)

SpecFollow == InitMove /\ [][NextFollow]_vars

\* ================================================== the whole loop of a tick
\* main.js loop for one room and one creep that walks to the controller: the
\* planners in the order of _runPlanning, then the creep's behaviour
\* (Pathing.moveTo) and the tracking of its step, then the end of the tick.
MaxLoopTime == 5
PathMaxAge == 3         \* age past which cleanPathCaches drops a cached path
                        \* (100 in part_000)

\* heatmaps a room may have accumulated before the first modelled tick
LoopSeeds ==
    { << >>,
      \* a tunnel cell, the control cell, the spawn cell, a free cell
      << E(2, 0, 25), E(4, 4, 25), E(1, 1, 25), E(3, 4, 25) >> }

\* main.js _runCreepBehavior after the role has run: RoadPlanner.trackStep
TrackSteps ==
    /\ pc = "step"
    /\ roadUsage' = TrackAll(roadUsage, 1)
    /\ lastPos' = creepPos
    /\ requests' = << >>
    /\ pc' = "upkeep"
    /\ UNCHANGED <<roomVars, planVars, time, dropped, creepPos, moveVars>>

\* MemoryUtil.cleanPathCaches for one creep: a cached path set more than
\* PathMaxAge ticks ago is dropped, unless it was set on tick 0 (the test
\* "mem._pathSetTick &&" takes 0 for a missing tick)
cleanPathCaches(mem, now) ==
    IF mem.target # NoPos /\ mem.setTick # NoTick /\ mem.setTick # 0
          /\ now - mem.setTick > PathMaxAge
    THEN ClearPath(mem)
    ELSE mem

\* main.js loop, memory and profiler maintenance at the end of the script's
\* tick (the profiler's statistics are not part of the state)
Maintenance ==
    /\ pc = "upkeep"
    /\ pathMem' = cleanPathCaches(pathMem, time)
    /\ requests' = << >>
    /\ pc' = "world"
    /\ UNCHANGED <<roomVars, planVars, time, roadUsage, dropped, creepPos,
                   lastPos, lastCall>>

\* the tick ends: the last move intent of the creep is carried out when the
\* cell is free (goes), or fails; Game.time advances
LoopEndTick(goes) ==
    /\ pc = "world"
    /\ time < MaxLoopTime
    /\ LET n == Len(lastCall.moves)
       IN creepPos' = IF goes /\ n > 0 /\ Passable(lastCall.moves[n])
                      THEN [creepPos EXCEPT ![1] = lastCall.moves[n]]
                      ELSE creepPos
    /\ time' = time + 1
    /\ pc' = "storage"
    /\ requests' = << >>
    /\ UNCHANGED <<roomVars, planVars, roadUsage, dropped, lastPos, moveVars>>

InitLoop ==
    /\ zone = 1
    /\ findOrder = "roadsFirst"
    /\ rcl \in {1, 3}
    /\ my \in BOOLEAN
    /\ structs = {[pos |-> CtrlPos, type |-> "controller"],
                  [pos |-> SpawnPos, type |-> "spawn"]}
    /\ sites = {}
    /\ siteRoom \in {1, Unlimited}
    /\ events = 0
    /\ roadLayout = [plannedVersion |-> 0, lastRCL |-> 0, trunk |-> NoPos]
    /\ storageLayout = InitLayoutRecord
    /\ settled = 0
    /\ clean = TRUE
    /\ time = 0
    /\ roadUsage \in LoopSeeds
    /\ dropped = << >>
    /\ creepPos = << <<1, 2>> >>
    /\ lastPos = << NoPos >>
    /\ pathMem = NoMem
    /\ lastCall = NoCall
    /\ pc = "storage"
    /\ requests = << >>

NextLoop ==
    \/ StoragePlanLayout("road")
    \/ RoadPlanLayout("usage")
    \/ RoadUsageRun("defense")
    \/ DefensePlanLayout("move")
    \/ MoveTo(CtrlPos, 1, MAX_OPS, FALSE)
    \/ TrackSteps
    \/ Maintenance
    \/ \E goes \in BOOLEAN : LoopEndTick(goes)

SpecLoop == InitLoop /\ [][NextLoop]_vars

\* ================================================== a creep that may idle
\* Creep 1 calls Pathing.moveTo on some ticks and does something else on the
\* others, so that a cached path can grow old; the tracking of the steps and
\* the maintenance of the memory follow as in the whole loop.
Idle ==
    /\ pc = "move"
    /\ lastCall' = [lastCall EXCEPT !.moves = << >>, !.solver = 0, !.route = << >>,
                                   !.reused = FALSE, !.nudged = FALSE]
    /\ pc' = "step"
    /\ requests' = << >>
    /\ UNCHANGED <<roomVars, planVars, heatVars, pathMem>>

IdleEndTick(goes) ==
    /\ pc = "world"
    /\ time < MaxLoopTime
    /\ LET n == Len(lastCall.moves)
       IN creepPos' = IF goes /\ n > 0 /\ Passable(lastCall.moves[n])
                      THEN [creepPos EXCEPT ![1] = lastCall.moves[n]]
                      ELSE creepPos
    /\ time' = time + 1
    /\ pc' = "move"
    /\ requests' = << >>
    /\ UNCHANGED <<roomVars, planVars, roadUsage, dropped, lastPos, moveVars>>

NextIdle ==
    \/ \E t \in MoveTargets, tired \in BOOLEAN : MoveTo(t, 1, MAX_OPS, tired)
    \/ Idle
    \/ TrackSteps
    \/ Maintenance
    \/ \E goes \in BOOLEAN : IdleEndTick(goes)

SpecIdle == InitMove /\ [][NextIdle]_vars

\* ================================================= a steadily used pair of cells
\* Two creeps swap the two cells of a pair every tick, so each cell gets one
\* arrival per tick: TICK_INTERVAL arrivals before every run.
ScenarioRuns == 6

SwapTick ==
    /\ pc = "world"
    /\ time < ScenarioRuns * TICK_INTERVAL
    /\ creepPos' = <<creepPos[2], creepPos[1]>>
    /\ time' = time + 1
    /\ pc' = "usage"
    /\ requests' = << >>
    /\ UNCHANGED <<roomVars, planVars, roadUsage, dropped, lastPos, moveVars>>

InitSteady ==
    /\ zone = 1
    /\ findOrder = "roadsFirst"
    /\ rcl \in {1, 2}
    /\ my = TRUE
    /\ structs = {[pos |-> CtrlPos, type |-> "controller"],
                  [pos |-> SpawnPos, type |-> "spawn"]}
    /\ sites = {}
    /\ siteRoom \in {0, Unlimited}
    /\ events = 0
    /\ roadLayout = [plannedVersion |-> 0, lastRCL |-> 0, trunk |-> NoPos]
    /\ storageLayout = InitLayoutRecord
    /\ settled = 0
    /\ clean = TRUE
    /\ time = 0
    /\ roadUsage = << >>
    /\ dropped = << >>
    /\ \E a \in Track, b \in Track : a # b /\ creepPos = <<a, b>>
    /\ lastPos = <<NoPos, NoPos>>
    /\ pathMem = NoMem
    /\ lastCall = NoCall
    /\ pc = "usage"
    /\ requests = << >>

NextSteady ==
    \/ RoadUsageRun("creeps")
    \/ RunCreepBehavior("world")
    \/ SwapTick

SpecSteady == InitSteady /\ [][NextSteady]_vars

\* ================================================================ properties
\* ---- the static planners (Spec)

C3_NoDuplicateRequest ==
    \A i \in 1..Len(requests) : ~requests[i].dup

\* C4, as stated: without a spawn a static pass emits no request and writes
\* neither the persisted version nor the persisted level.
C4_Original ==
    [][(pc \in {"storage", "road"} /\ ~HasSpawn)
          => /\ requests' = << >>
             /\ roadLayout' = roadLayout
             /\ storageLayout'.plannedVersion = storageLayout.plannedVersion
             /\ storageLayout'.lastRCL = storageLayout.lastRCL]_vars

\* C4, amended: without a spawn the road layout planner emits no request and
\* leaves its record unchanged (its trigger stays set); the storage planner
\* requests nothing but, possibly, the extractor on the mineral, and records
\* no placement (it does write the version and the level).
C4_NoSpawn ==
    [][/\ (pc = "road" /\ ~HasSpawn)
            => (requests' = << >> /\ roadLayout' = roadLayout)
       /\ (pc = "storage" /\ ~HasSpawn)
            => /\ \A i \in 1..Len(requests') : requests'[i].type = "extractor"
               /\ storageLayout'.storagePos = storageLayout.storagePos
               /\ storageLayout'.sourceContainers = storageLayout.sourceContainers
               /\ storageLayout'.controllerContainer = storageLayout.controllerContainer
               /\ storageLayout'.links = storageLayout.links]_vars

\* a pass has run in a room that lost its spawn and changed level: the road
\* planner's trigger is still set
C4_Witness ==
    /\ pc = "defense" /\ settled >= 1 /\ ~HasSpawn
    /\ roadLayout.lastRCL # rcl

\* C5, as stated: the persisted version and the persisted level of both
\* records never decrease.
C5_Original ==
    [][/\ roadLayout'.plannedVersion >= roadLayout.plannedVersion
       /\ roadLayout'.lastRCL >= roadLayout.lastRCL
       /\ storageLayout'.plannedVersion >= storageLayout.plannedVersion
       /\ storageLayout'.lastRCL >= storageLayout.lastRCL]_vars

\* C5, amended: the persisted version never decreases; the persisted level
\* changes only to the room's current level, so it never decreases while the
\* current level is not below it.
C5_Monotonic ==
    [][/\ roadLayout'.plannedVersion >= roadLayout.plannedVersion
       /\ storageLayout'.plannedVersion >= storageLayout.plannedVersion
       /\ roadLayout'.lastRCL # roadLayout.lastRCL => roadLayout'.lastRCL = rcl
       /\ storageLayout'.lastRCL # storageLayout.lastRCL => storageLayout'.lastRCL = rcl
       /\ rcl >= roadLayout.lastRCL => roadLayout'.lastRCL >= roadLayout.lastRCL
       /\ rcl >= storageLayout.lastRCL
             => storageLayout'.lastRCL >= storageLayout.lastRCL]_vars

\* the level has dropped and the storage planner has run since: its record
\* holds the lower level, the road planner's still the higher one
C5_Witness ==
    /\ pc = "road" /\ events >= 1
    /\ storageLayout.lastRCL = rcl /\ roadLayout.lastRCL > rcl

\* C6: in a storage-planner call, for extensions and for links, with
\* remaining = quota - existing - pending at the start of the call: if
\* remaining <= 0 no request of the kind is emitted, otherwise at most
\* `remaining` requests of the kind are accepted and existing + pending stays
\* within the quota.
C6_Quota ==
    [][pc = "storage" =>
         \A kind \in {"extension", "link"} :
            LET quota == CONTROLLER_STRUCTURES(kind, rcl)
                remaining == quota - CountType(structs, kind) - CountType(sites, kind)
                emitted == {i \in 1..Len(requests') : requests'[i].type = kind}
                accepted == {i \in emitted : requests'[i].ok}
            IN IF remaining <= 0 THEN emitted = {}
               ELSE /\ Cardinality(accepted) <= remaining
                    /\ CountType(structs', kind) + CountType(sites', kind) <= quota]_vars

\* the extension quota of the level is used up while free spots are left
C6_Witness ==
    /\ pc = "road" /\ rcl = 2
    /\ CountType(sites, "extension") = CONTROLLER_STRUCTURES("extension", rcl)
    /\ \E i \in 1..Len(requests) : requests[i].type = "extension" /\ requests[i].ok

\* ---- the usage-driven road planner (SpecUsage)

\* C7: every counter of the heatmap is an integer >= 0.
C7_CountersNonNegative ==
    \A i \in 1..Len(roadUsage) : roadUsage[i].count \in Nat

\* a run has decayed a counter that was already 0
C7_Witness ==
    /\ pc = "creeps" /\ time % TICK_INTERVAL = 0 /\ requests = << >>
    /\ \E i \in 1..Len(roadUsage) : roadUsage[i].count = 0

\* C8: right after a run that executes, the heatmap holds at most
\* MAX_TILES_PER_ROOM entries.
C8_CapAfterRun ==
    (pc = "creeps" /\ my /\ time % TICK_INTERVAL = 0)
        => Len(roadUsage) <= MAX_TILES_PER_ROOM

\* a run has evicted entries of a heatmap that was above the cap
C8_Witness ==
    pc = "creeps" /\ time % TICK_INTERVAL = 0 /\ Len(dropped) > 0

\* C9: a visit reported for an untracked cell of a heatmap that holds
\* MAX_TILES_PER_ROOM entries evicts the entry of least usage first, so
\* tracking never takes the entry count above the cap.
C9_CapOnVisit ==
    [][(pc = "creeps" /\ Len(roadUsage) <= MAX_TILES_PER_ROOM)
          => Len(roadUsage') <= MAX_TILES_PER_ROOM]_vars

\* C10, as stated: in a run, a road request is emitted for a tracked cell if
\* and only if its decayed usage reaches the threshold and the cell is legal.
C10_Original ==
    [][(pc = "usage" /\ my /\ time % TICK_INTERVAL = 0) =>
         \A i \in 1..Len(roadUsage) :
            LET key == roadUsage[i].key
                qualifies ==
                    /\ Max2(0, roadUsage[i].count - DECAY_PER_RUN) >= dynamicMinUsage(rcl)
                    /\ ~terrainWall(key)
                    /\ key # CtrlPos
                    /\ ~(HasSpawn /\ key = SpawnPos)
                    /\ "road" \notin StructTypesAt(key)
                    /\ "road" \notin SiteTypesAt(sites, key)
            IN (\E j \in 1..Len(requests') : requests'[j].pos = key) <=> qualifies]_vars

\* C10, amended: in a run, for a cell that survives the eviction at the head
\* of the run, a road request is emitted if and only if its decayed usage
\* reaches the threshold, the cell is legal and fewer than
\* MAX_CONSTRUCTION_SITES_PER_RUN requests were accepted for the cells
\* before it in the run.
C10_RequestCondition ==
    [][(pc = "usage" /\ my /\ time % TICK_INTERVAL = 0) =>
         LET kept == Retained(roadUsage)
             At(key) == CHOOSE i \in 1..Len(kept) : kept[i].key = key
             acceptedBefore(i) ==
                 Cardinality({j \in 1..Len(requests') :
                                 requests'[j].ok /\ At(requests'[j].pos) < i})
         IN /\ \A j \in 1..Len(requests') :
                  /\ requests'[j].type = "road"
                  /\ \E i \in 1..Len(kept) : kept[i].key = requests'[j].pos
            /\ \A i \in 1..Len(kept) :
                  LET key == kept[i].key
                      qualifies ==
                          /\ Max2(0, kept[i].count - DECAY_PER_RUN) >= dynamicMinUsage(rcl)
                          /\ ~terrainWall(key)
                          /\ key # CtrlPos
                          /\ ~(HasSpawn /\ key = SpawnPos)
                          /\ "road" \notin StructTypesAt(key)
                          /\ "road" \notin SiteTypesAt(sites, key)
                  IN (\E j \in 1..Len(requests') : requests'[j].pos = key)
                        <=> (qualifies /\ acceptedBefore(i) < MAX_CONSTRUCTION_SITES_PER_RUN)]_vars

\* a run has stopped at its cap of accepted requests
C10_Witness ==
    /\ pc = "creeps" /\ time % TICK_INTERVAL = 0
    /\ Cardinality({j \in 1..Len(requests) : requests[j].ok})
          = MAX_CONSTRUCTION_SITES_PER_RUN

\* ---- a steadily used pair of cells (SpecSteady)

\* C11, as stated: with the threshold at MIN_USAGE_FOR_ROAD, a legal cell
\* that starts at 0 and gets TICK_INTERVAL arrivals before every run is
\* requested on run 6 and on no earlier run.
C11_Original ==
    [][(pc = "usage" /\ maxCreepsForRCL(rcl) <= 10)
          => \A j \in 1..Len(requests') :
                requests'[j].pos \in {creepPos[1], creepPos[2]}
                   => time >= 6 * TICK_INTERVAL]_vars

\* C11, amended: such a cell is requested on run 5 (decayed value
\* 5 * 5 - 5 * 1 = 20) and on no earlier run, and its counter is 0 after
\* that run when the world accepts the request.
C11_Timing ==
    [][(pc = "usage" /\ maxCreepsForRCL(rcl) <= 10)
          => \A c \in {creepPos[1], creepPos[2]} :
                LET asked == {j \in 1..Len(requests') : requests'[j].pos = c}
                IN /\ time < 5 * TICK_INTERVAL => asked = {}
                   /\ time = 5 * TICK_INTERVAL
                         => /\ asked # {}
                            /\ \A j \in asked :
                                  requests'[j].ok => UsageCount(roadUsage', c) = 0]_vars

\* run 5 has requested the cell and reset its counter
C11_Witness ==
    /\ pc = "creeps" /\ time = 5 * TICK_INTERVAL /\ maxCreepsForRCL(rcl) <= 10
    /\ \E j \in 1..Len(requests) :
          /\ requests[j].pos = creepPos[1] /\ requests[j].ok
          /\ UsageCount(roadUsage, creepPos[1]) = 0

\* ---- tracking (SpecUsage)

\* C12: the tracking of a tick adds to the counter of every cell exactly 1
\* for each creep that is on the cell now and was not on it at its previous
\* report (or has no previous report); a creep that stays adds nothing.
C12_ArrivalsOnly ==
    [][pc = "creeps" =>
         \A k \in Cells :
            UsageCount(roadUsage', k)
               = UsageCount(roadUsage, k)
                 + Cardinality({c \in DOMAIN creepPos :
                                   creepPos[c] = k /\ lastPos[c] # k})]_vars

\* a creep was counted on its arrival at tick 0 and not again while it
\* stayed on the cell at tick 1
C12_Witness ==
    /\ pc = "world" /\ time = 1
    /\ creepPos[1] = <<1, 2>> /\ lastPos[1] = <<1, 2>>
    /\ roadUsage = << [key |-> <<1, 2>>, count |-> 1] >>

\* ---- creep movement (SpecMove)

\* C13: a call follows the cached path without a search if and only if the
\* cached destination and the range the path was computed for equal those
\* of the call and the path is at most reusePath ticks old; otherwise it
\* searches.
C13_ReuseCondition ==
    [][pc = "move" =>
         /\ lastCall'.reused
               <=> /\ pathMem.path # << >>
                   /\ pathMem.target = lastCall'.target
                   /\ pathMem.range = lastCall'.range
                   /\ time - pathMem.setTick <= ReusePath
         /\ ~lastCall'.reused => lastCall'.solver = 1]_vars

\* C14, as stated: the nudge comes on the call that finds the creep on one
\* cell for the STUCK_TICKS-th time in a row, and on no other call.
C14_Original ==
    [][pc = "move" => (lastCall'.nudged <=> lastCall'.dwell = STUCK_TICKS)]_vars

\* C14, amended: the nudge comes on the call that, for the STUCK_TICKS-th
\* time in a row, finds the creep where the call before had found it (the
\* call after STUCK_TICKS ticks without movement) and on no other call; that
\* call does not follow the cached path, any path cached after it was
\* computed by it, and the stall counter is 0 after it.
C14_StallTiming ==
    [][pc = "move" =>
         /\ lastCall'.nudged <=> lastCall'.still = STUCK_TICKS
         /\ lastCall'.nudged
               => /\ ~lastCall'.reused
                  /\ pathMem'.stuckTicks = 0
                  /\ pathMem'.path # << >> => pathMem'.setTick = time]_vars

\* a creep with a cached path has been nudged
C14_Witness ==
    pc = "step" /\ lastCall.nudged /\ lastCall.cached # NoPos /\ lastCall.moves # << >>

C16_AlreadyThere ==
    [][(pc = "move" /\ getRangeTo(creepPos[1], lastCall'.target) <= lastCall'.range)
          => /\ lastCall'.moves = << >>
             /\ pathMem'.path = pathMem.path
             /\ pathMem'.target = pathMem.target
             /\ pathMem'.setTick = pathMem.setTick
             /\ lastCall'.result # "ERR_NO_PATH"]_vars

\* C17: a call whose search ends incomplete returns ERR_NO_PATH, caches
\* nothing and, unless it nudges the creep, issues no move.
C17_IncompleteIsNoPath ==
    [][(pc = "move" /\ lastCall'.incomplete)
          => /\ lastCall'.result = "ERR_NO_PATH"
             /\ pathMem'.path = << >>
             /\ ~lastCall'.nudged => lastCall'.moves = << >>]_vars

\* C18: a call issues at most one move action.
C18_OneMove ==
    Len(lastCall.moves) <= 1

\* ---- the defense planner (Spec)

\* C19: a call of the defense planner for a room whose level is below
\* MIN_RCL, or that is not owned, requests no rampart and no tower (it
\* requests nothing at all).
C19_Gating ==
    [][(pc = "defense" /\ (rcl < MIN_RCL \/ ~my)) => requests' = << >>]_vars

\* the passes of a tick have run in an owned room below MIN_RCL: the other
\* planners have got sites accepted, the defense planner has asked for nothing
C19_Witness ==
    /\ pc = "world" /\ events = 0 /\ my /\ rcl < MIN_RCL
    /\ sites # {} /\ requests = << >>

\* C20: one call of the defense planner requests at most
\* min(MAX_BORDER_SITES_PER_TICK, allowed - existing - pending) ramparts,
\* the three counted when the call starts, and none when that is <= 0,
\* whether the world accepts the requests or not.
C20_BorderCap ==
    [][pc = "defense" =>
         LET remaining == CONTROLLER_STRUCTURES("rampart", rcl)
                              - CountType(structs, "rampart")
                              - CountType(sites, "rampart")
             emitted == Cardinality({i \in 1..Len(requests') :
                                        requests'[i].type = "rampart"})
         IN /\ emitted <= MAX_BORDER_SITES_PER_TICK
            /\ emitted <= IF remaining > 0 THEN remaining ELSE 0]_vars

\* ---- the usage-driven road planner, continued (SpecUsage)

\* C21: one run of the usage planner emits at most
\* MAX_CONSTRUCTION_SITES_PER_RUN road requests, whether the world accepts
\* them or not.
C21_RunCap ==
    [][pc = "usage" => Len(requests') <= MAX_CONSTRUCTION_SITES_PER_RUN]_vars

\* C26: in a run that executes, every entry that survives the eviction at
\* the head of the run and is still tracked after the run has its counter
\* replaced by max(0, counter - DECAY_PER_RUN), or by 0 when the run got a
\* request for its cell accepted; the entries after the point where the
\* cap of the run is reached included.
C26_DecayAll ==
    [][(pc = "usage" /\ my /\ time % TICK_INTERVAL = 0) =>
         LET kept == Retained(roadUsage)
         IN \A i \in 1..Len(kept) :
               LET key == kept[i].key
                   accepted == \E j \in 1..Len(requests') :
                                  requests'[j].pos = key /\ requests'[j].ok
               IN key \in UsageKeys(roadUsage')
                     => UsageCount(roadUsage', key)
                           = IF accepted THEN 0
                             ELSE Max2(0, kept[i].count - DECAY_PER_RUN)]_vars

\* C27: a run that starts with more than MAX_TILES_PER_ROOM entries evicts
\* exactly (entries - MAX_TILES_PER_ROOM) of them, and no evicted entry had
\* a counter above that of an entry it kept.
C27_EvictLowest ==
    [][(pc = "usage" /\ my /\ time % TICK_INTERVAL = 0
          /\ Len(roadUsage) > MAX_TILES_PER_ROOM) =>
         LET evicted == {dropped'[i].key : i \in 1..Len(dropped')}
         IN /\ Len(dropped') = Len(roadUsage) - MAX_TILES_PER_ROOM
            /\ Cardinality(evicted) = Len(dropped')
            /\ evicted \subseteq UsageKeys(roadUsage)
            /\ evicted \cap UsageKeys(roadUsage') = {}
            /\ \A i, j \in 1..Len(roadUsage) :
                  (roadUsage[i].key \in evicted /\ roadUsage[j].key \notin evicted)
                     => roadUsage[i].count <= roadUsage[j].count]_vars

\* a run has evicted two entries of different usage
C27_Witness ==
    /\ pc = "creeps" /\ time % TICK_INTERVAL = 0
    /\ Len(dropped) = 2 /\ dropped[1].count < dropped[2].count

\* C28, as stated: in a run, an entry whose decayed usage reaches the
\* threshold is deleted only if its cell is a wall.
C28_Original ==
    [][(pc = "usage" /\ my /\ time % TICK_INTERVAL = 0) =>
         LET kept == Retained(roadUsage)
         IN \A i \in 1..Len(kept) :
               (/\ Max2(0, kept[i].count - DECAY_PER_RUN)
                      >= MIN_USAGE_FOR_ROAD + Max2(0, maxCreepsForRCL(rcl) - 10) * 5
                /\ kept[i].key \notin UsageKeys(roadUsage'))
                  => terrainWall(kept[i].key)]_vars

\* C28, amended: in a run, for an entry that the run visits (fewer than
\* MAX_CONSTRUCTION_SITES_PER_RUN requests accepted before it) and whose
\* decayed usage reaches the threshold: the entry is deleted if and only if
\* its cell is a wall or holds a road; on the controller's cell, on a spawn's
\* cell, with a pending road site or with a rejected request it is kept with
\* the decayed counter; with an accepted request it is kept with counter 0.
C28_Fate ==
    [][(pc = "usage" /\ my /\ time % TICK_INTERVAL = 0) =>
         LET kept == Retained(roadUsage)
             At(key) == CHOOSE i \in 1..Len(kept) : kept[i].key = key
             acceptedBefore(i) ==
                 Cardinality({j \in 1..Len(requests') :
                                 requests'[j].ok /\ At(requests'[j].pos) < i})
         IN \A i \in 1..Len(kept) :
               LET key == kept[i].key
                   decayed == Max2(0, kept[i].count - DECAY_PER_RUN)
                   accepted == \E j \in 1..Len(requests') :
                                  requests'[j].pos = key /\ requests'[j].ok
               IN (/\ acceptedBefore(i) < MAX_CONSTRUCTION_SITES_PER_RUN
                   /\ decayed >= MIN_USAGE_FOR_ROAD + Max2(0, maxCreepsForRCL(rcl) - 10) * 5)
                     => IF terrainWall(key) \/ "road" \in StructTypesAt(key)
                        THEN key \notin UsageKeys(roadUsage')
                        ELSE /\ key \in UsageKeys(roadUsage')
                             /\ UsageCount(roadUsage', key)
                                   = IF accepted THEN 0 ELSE decayed]_vars

\* a run has deleted the entry of a cell that holds a road and the entry of
\* no other cell it kept at its head
C28_Witness ==
    /\ pc = "creeps" /\ time % TICK_INTERVAL = 0
    /\ "road" \in StructTypesAt(<<2, 2>>)
    /\ <<2, 2>> \notin UsageKeys(roadUsage)
    /\ <<3, 4>> \in UsageKeys(roadUsage)
    /\ Len(dropped) = 2
    /\ Len(roadUsage) = MAX_TILES_PER_ROOM - 1

C30_Rollover ==
    [][IF pc = "usage" /\ my /\ time % TICK_INTERVAL = 0
       THEN LET kept == Retained(roadUsage)
                At(key) == CHOOSE i \in 1..Len(kept) : kept[i].key = key
                acceptedBefore(i) ==
                    Cardinality({j \in 1..Len(requests') :
                                    requests'[j].ok /\ At(requests'[j].pos) < i})
            IN \A i \in 1..Len(kept) :
                  (/\ acceptedBefore(i) >= MAX_CONSTRUCTION_SITES_PER_RUN
                   /\ Max2(0, kept[i].count - DECAY_PER_RUN) >= dynamicMinUsage(rcl))
                     => /\ kept[i].key \in UsageKeys(roadUsage')
                        /\ UsageCount(roadUsage', kept[i].key) >= dynamicMinUsage(rcl')
       ELSE /\ rcl' = rcl
            /\ \A k \in UsageKeys(roadUsage) :
                  /\ k \in UsageKeys(roadUsage')
                  /\ UsageCount(roadUsage', k) >= UsageCount(roadUsage, k)]_vars

\* the next run starts with an entry that the run before left unvisited
\* at its cap, still at or above the threshold
C30_Witness ==
    /\ pc = "usage" /\ time = TICK_INTERVAL
    /\ CountType(sites, "road") >= MAX_CONSTRUCTION_SITES_PER_RUN
    /\ UsageCount(roadUsage, <<3, 4>>) >= dynamicMinUsage(rcl) + DECAY_PER_RUN
    /\ "road" \notin SiteTypesAt(sites, <<3, 4>>)

\* ---- a room with a cut-off resource anchor (SpecEnclosed)

\* C23: a pass of the road layout planner that replans requests roads only
\* on the plaza and on the routes of the anchor pairs the solver can route
\* (none for a pair without a route), and records version and level.
C23_UnreachableIsolated ==
    [][(pc = "road" /\ my /\ RoadTriggered /\ HasSpawn) =>
         LET cost == StepCost(LayoutCostMatrix, 2, 5)
             Route(from, to) ==
                 LET r == SearchResult(DistFrom(from, cost), cost, to, 1, MAX_OPS)
                 IN IF r.incomplete THEN {} ELSE {r.path[i] : i \in 1..Len(r.path)}
             SourceSet == {Sources[i] : i \in 1..Len(Sources)}
             MineralSet == {Minerals[i] : i \in 1..Len(Minerals)}
             Origins == {SpawnPos} \cup (IF RoadStoragePos = NoPos THEN {} ELSE {RoadStoragePos})
             plaza == {c \in Cells : getRangeTo(c, SpawnPos) \in {1, 2}}
             lanes == UNION ({Route(o, t) : o \in Origins, t \in SourceSet \cup {CtrlPos}}
                             \cup {Route(o, CtrlPos) : o \in SourceSet}
                             \cup {Route(SpawnPos, t) : t \in Origins \ {SpawnPos}}
                             \cup {Route(o, t) : o \in Origins \ {SpawnPos}, t \in MineralSet})
         IN /\ \A j \in 1..Len(requests') : requests'[j].pos \in plaza \cup lanes
            /\ roadLayout'.plannedVersion = ROAD_LAYOUT_VERSION
            /\ roadLayout'.lastRCL = rcl]_vars

\* ---- the road layout and the storage (SpecFair)

\* C25: in a behaviour in which the planners are called tick after tick
\* (storage planner, then road planner) and the spawn stays, once the storage
\* is built or its position is recorded in Memory.storageLayout a replanning
\* pass of the road planner eventually lays the roads of the storage: to the
\* spawn, the controller, the sources and the mineral.
C25_TrunkEventually ==
    ([]<>(pc = "storage") /\ []<>(pc = "world") /\ <>[]HasSpawn)
        => ((my /\ (HasStorage \/ storageLayout.storagePos # NoPos))
               ~> (roadLayout.trunk # NoPos /\ roadLayout.trunk = RoadStoragePos))

\* ---- the whole loop of a tick (SpecLoop)

\* C22: no road request of the plaza, of a lane or of the usage planner is
\* for a wall cell, for the controller's cell or for a spawn's cell.
C22_LegalLaneCells ==
    \A i \in 1..Len(requests) :
        requests[i].type = "road"
            => /\ requests[i].pos \notin ZoneDef(zone).walls
               /\ \A s \in structs :
                     s.type \in {"controller", "spawn"} => s.pos # requests[i].pos

\* a run of the usage planner has requested a road for a free cell and none
\* for the wall cell (entry deleted), the controller's cell and the spawn's
\* cell (entries kept), all past the threshold
C22_Witness ==
    /\ pc = "defense" /\ time = 0
    /\ \E i \in 1..Len(requests) : requests[i].pos = <<3, 4>>
    /\ <<2, 0>> \notin UsageKeys(roadUsage)
    /\ UsageCount(roadUsage, CtrlPos) >= dynamicMinUsage(rcl)
    /\ UsageCount(roadUsage, SpawnPos) >= dynamicMinUsage(rcl)
    /\ CountType(sites, "road") > 1

\* C24: the heatmap of a room changes only in a run of the usage planner
\* that executes and in the tracking of the creeps' steps, where the counter
\* of a cell changes only by one arrival; the storage, road layout and
\* defense passes, Pathing.moveTo, the maintenance of the memory and the end
\* of the tick leave it as it is,
\* and a run on a tick that is no multiple of TICK_INTERVAL or for a room
\* that is not owned changes nothing and requests nothing.
C24_SingleWriter ==
    [][/\ roadUsage' # roadUsage
            => \/ pc = "usage" /\ my /\ time % TICK_INTERVAL = 0
               \/ /\ pc = "step"
                  /\ \A k \in UsageKeys(roadUsage) \cup UsageKeys(roadUsage') :
                        UsageCount(roadUsage', k) # UsageCount(roadUsage, k)
                           => /\ k = creepPos[1] /\ lastPos[1] # k
                              /\ UsageCount(roadUsage', k) = UsageCount(roadUsage, k) + 1
       /\ (pc = "usage" /\ ~(my /\ time % TICK_INTERVAL = 0))
            => /\ roadUsage' = roadUsage
               /\ requests' = << >>
               /\ sites' = sites]_vars

\* with a heatmap in place and off the interval, the planners have run (the
\* defense planner has just requested ramparts) and the creep has moved
C24_Witness ==
    /\ pc = "move" /\ time % TICK_INTERVAL # 0
    /\ roadUsage # << >> /\ Len(requests) > 0
    /\ lastCall.moves # << >> /\ creepPos[1] # <<1, 2>>

\* ---- the defense planner, continued (Spec, SpecBuilt)

\* the perpendicular inward neighbours of the passable boundary cells
InwardCells ==
    {<<c[1], 1>> : c \in {c \in Cells : c[2] = 0 /\ ~terrainWall(c)}}
        \cup {<<c[1], GridMax - 1>> : c \in {c \in Cells : c[2] = GridMax /\ ~terrainWall(c)}}
        \cup {<<1, c[2]>> : c \in {c \in Cells : c[1] = 0 /\ ~terrainWall(c)}}
        \cup {<<GridMax - 1, c[2]>> : c \in {c \in Cells : c[1] = GridMax /\ ~terrainWall(c)}}

\* C31: every rampart request is for a passable cell that is the
\* perpendicular inward neighbour of a passable boundary cell and is no
\* boundary cell itself (x and y both in 1..GridMax-1), whatever the terrain,
\* passable corners included.
C31_OneStepInward ==
    \A i \in 1..Len(requests) :
        requests[i].type = "rampart"
            => /\ ~terrainWall(requests[i].pos)
               /\ requests[i].pos \in InwardCells
               /\ requests[i].pos[1] \in 1..(GridMax - 1)
               /\ requests[i].pos[2] \in 1..(GridMax - 1)

\* a tower may be requested at cell c when the sites are ss
TowerLegal(ss, c) ==
    /\ InBounds(c[1], c[2])
    /\ ~terrainWall(c)
    /\ StructTypesAt(c) \subseteq {"road", "container"}
    /\ SiteTypesAt(ss, c) = {}

\* C32: in a defense pass a tower is requested only at one of the eight
\* offsets from the spawn, for a cell in bounds, not a wall, with no
\* structure but roads and containers and with no construction site (those
\* of the ramparts of the pass included); an accepted request is at the
\* first offset, in the order of the list, whose cell is legal; at most
\* min(MAX_TOWER_SITES_PER_TICK, allowed - existing - pending) requests are
\* accepted, and none is emitted when that is <= 0.
C32_TowerOrder ==
    [][pc = "defense" =>
         LET towers == {i \in 1..Len(requests') : requests'[i].type = "tower"}
             accepted == {i \in towers : requests'[i].ok}
             remaining == CONTROLLER_STRUCTURES("tower", rcl)
                              - CountType(structs, "tower") - CountType(sites, "tower")
             \* the sites the tower loop saw: those after the pass without
             \* the towers the pass got accepted
             seen == sites' \ {[pos |-> requests'[i].pos, type |-> "tower"] : i \in accepted}
         IN /\ \A i \in towers :
                  /\ \E k \in 1..Len(TowerOffsets) : requests'[i].pos = TowerCell(k)
                  /\ TowerLegal(seen, requests'[i].pos)
            /\ \A i \in accepted :
                  \A k \in 1..Len(TowerOffsets) :
                     TowerCell(k) = requests'[i].pos
                        => \A j \in 1..(k - 1) : ~TowerLegal(seen, TowerCell(j))
            /\ Cardinality(accepted)
                  <= Min2(MAX_TOWER_SITES_PER_TICK, IF remaining > 0 THEN remaining ELSE 0)
            /\ remaining <= 0 => towers = {}]_vars

\* a pass has got a tower accepted at a later offset: the cell of the first
\* offset is in the room and passable, and taken
C32_Witness ==
    /\ pc = "world" /\ HasSpawn
    /\ \E i \in 1..Len(requests) :
          /\ requests[i].type = "tower" /\ requests[i].ok
          /\ requests[i].pos # TowerCell(1)
    /\ InBounds(TowerCell(1)[1], TowerCell(1)[2]) /\ ~terrainWall(TowerCell(1))

\* ---- the buffers of the anchors (SpecEnclosed)

\* the cells next to anchor a where a container may go, with the structures
\* and sites of the room as they are
BufferLegal(a) ==
    {c \in Cells : /\ getRangeTo(c, a) = 1
                   /\ ~terrainWall(c)
                   /\ StructTypesAt(c) \subseteq {"road", "container", "rampart"}
                   /\ SiteTypesAt(sites, c) \subseteq {"road", "container", "rampart"}}

\* what a storage pass may do for anchor a, whose recorded cell is `was`
\* before the pass and `now` after it
BufferChoice(a, was, now) ==
    IF was # NoPos THEN now = was
    ELSE IF BufferLegal(a) = {} \/ ~my \/ ~HasSpawn THEN now = NoPos
    ELSE /\ now \in BufferLegal(a)
         /\ \A c \in BufferLegal(a) : getRangeTo(SpawnPos, now) <= getRangeTo(SpawnPos, c)

RecordedSource(layout, i) ==
    IF HasKey(layout.sourceContainers, i) THEN Lookup(layout.sourceContainers, i) ELSE NoPos

\* C33: the cell a storage pass records for the container of a source or of
\* the controller is in the room, next to the anchor, not a wall, hosts no
\* structure and no site other than road, container and rampart, and no such
\* cell is nearer to the spawn; when no cell next to the anchor is legal the
\* pass records none, and every container request of the pass is for a
\* recorded cell.
C33_BufferPlacement ==
    [][pc = "storage" =>
         /\ \A i \in 1..Len(Sources) :
               BufferChoice(Sources[i], RecordedSource(storageLayout, i),
                            RecordedSource(storageLayout', i))
         /\ BufferChoice(CtrlPos, storageLayout.controllerContainer,
                         storageLayout'.controllerContainer)
         /\ \A r \in 1..Len(requests') :
               requests'[r].type = "container"
                  => \/ requests'[r].pos = storageLayout'.controllerContainer
                     \/ \E i \in 1..Len(Sources) :
                           requests'[r].pos = RecordedSource(storageLayout', i)]_vars

\* the first pass has recorded no cell for the source that walls surround,
\* and a cell for the other source and for the controller, and has requested
\* their containers
C33_Witness ==
    /\ pc = "road" /\ events = 0
    /\ \A c \in Cells : getRangeTo(c, Sources[1]) = 1 => terrainWall(c)
    /\ RecordedSource(storageLayout, 1) = NoPos
    /\ RecordedSource(storageLayout, 2) # NoPos
    /\ storageLayout.controllerContainer # NoPos
    /\ \E r \in 1..Len(requests) : requests[r].type = "container" /\ requests[r].ok

\* ---- the cost matrices (SpecBuilt)

\* C34: in the cost matrix of the road planner and in that of moveTo, every
\* cell with a blocking structure (any but road, container and rampart) has
\* cost 255, whatever else stands on the cell and in whatever order
\* room.find lists the structures.
C34_BlockingImpassable ==
    \A c \in Cells :
        StructTypesAt(c) \ {"road", "container", "rampart"} # {}
            => /\ LayoutCostMatrix[c] = BLOCKED
               /\ MoveCostMatrix(1)[c] = BLOCKED

\* ---- the cost matrix of moveTo and the other creeps (SpecFollow)

\* C35: when creep 1 calls moveTo, every cell on which another creep stands
\* has cost 255 in the matrix of the call, except the cell creep 1 stood on
\* at its call of the tick before, which keeps the cost its terrain and
\* structures give it even with another creep on it; the cell creep 1 stands
\* on is not blocked either.
C35_AgentBlocking ==
    pc = "move" =>
        \A c \in Cells :
            LET others == \E o \in DOMAIN creepPos : o # 1 /\ creepPos[o] = c
            IN IF c = creepPos[1] \/ c = lastCall.pos
               THEN MoveCostMatrix(1)[c] = LayoutCostMatrix[c]
               ELSE others => MoveCostMatrix(1)[c] = BLOCKED

\* ---- the cached path (SpecIdle)

\* the cached path, its target and its tick are all there or all missing
CacheWhole(mem) ==
    \/ mem.path = << >> /\ mem.target = NoPos /\ mem.setTick = NoTick
    \/ mem.path # << >> /\ mem.target # NoPos /\ mem.setTick # NoTick

\* C36: after every call of Pathing.moveTo and every cleanPathCaches the
\* cached path, its target and its tick are all present or all absent; a
\* call that has searched leaves the cache absent or holding its own route,
\* target and tick, and a call that has not searched, and the cleanup, leave
\* the cache as it was or absent.
C36_CacheWhole ==
    [][/\ CacheWhole(pathMem')
       /\ pathMem'.path # << >>
             => IF pc = "move" /\ lastCall'.solver = 1
                THEN /\ pathMem'.path = lastCall'.route
                     /\ pathMem'.target = lastCall'.target
                     /\ pathMem'.setTick = time
                ELSE /\ pathMem'.path = pathMem.path
                     /\ pathMem'.target = pathMem.target
                     /\ pathMem'.setTick = pathMem.setTick]_vars

\* the cleanup has just dropped a cached path that had grown old
C36_Witness ==
    /\ pc = "world"
    /\ pathMem.path = << >> /\ pathMem.target = NoPos
    /\ lastCall.result = "OK" /\ lastCall.target # NoPos
    /\ ~lastCall.nudged /\ lastCall.solver = 0
    /\ time > PathMaxAge

\* ---- the stall counter (SpecMove)

\* C37: after every call of Pathing.moveTo the stall counter is in
\* 0..STUCK_TICKS-1; it is 0 when the call found the creep on another cell
\* than the recorded one, and the recorded cell is the cell of the latest
\* call that found the creep moved (so it is the cell of the creep).
C37_StallCounter ==
    [][pc = "move" =>
         /\ pathMem'.stuckTicks \in 0..(STUCK_TICKS - 1)
         /\ pathMem.lastMovePos # creepPos[1]
               => pathMem'.stuckTicks = 0 /\ pathMem'.lastMovePos = creepPos[1]
         /\ pathMem.lastMovePos = creepPos[1]
               => pathMem'.lastMovePos = pathMem.lastMovePos]_vars

\* the counter has reached STUCK_TICKS in a call and has been set back to 0
\* with the nudge
C37_Witness ==
    /\ pc = "step"
    /\ lastCall.nudged /\ lastCall.still = STUCK_TICKS
    /\ pathMem.stuckTicks = 0 /\ pathMem.lastMovePos = creepPos[1]

\* ---- the recorded cells (Spec)

\* the cell recorded under key id of a keyed part of the layout record
RecordedAt(seq, id) == IF HasKey(seq, id) THEN Lookup(seq, id) ELSE NoPos

\* a recorded cell stays as it is
Kept(was, now) == was # NoPos => now = was

\* a container missing at a recorded cell is requested there by the pass
Rerequested(p) ==
    (p # NoPos /\ "container" \notin StructTypesAt(p)
               /\ "container" \notin SiteTypesAt(sites, p))
        => \E r \in 1..Len(requests') :
              requests'[r].type = "container" /\ requests'[r].pos = p

\* C38: a cell recorded in Memory.storageLayout for the container of a source
\* or of the controller, or for a link, is never changed or removed by a
\* later step, whatever has happened to the structure or the site on it; a
\* storage pass requests a missing container at the recorded cell.
C38_RecordsPermanent ==
    [][/\ \A i \in 1..Len(Sources) :
             /\ Kept(RecordedAt(storageLayout.sourceContainers, i),
                     RecordedAt(storageLayout'.sourceContainers, i))
             /\ Kept(RecordedAt(storageLayout.links.sources, i),
                     RecordedAt(storageLayout'.links.sources, i))
       /\ Kept(storageLayout.controllerContainer, storageLayout'.controllerContainer)
       /\ Kept(storageLayout.links.controller, storageLayout'.links.controller)
       /\ Kept(storageLayout.links.storage, storageLayout'.links.storage)
       /\ (pc = "storage" /\ my /\ HasSpawn)
             => /\ Rerequested(storageLayout.controllerContainer)
                /\ \A i \in 1..Len(Sources) :
                      Rerequested(RecordedAt(storageLayout.sourceContainers, i))]_vars

\* after a change of the world a storage pass has requested, and got
\* accepted, the controller's container at the cell recorded before, with
\* a link recorded as well
C38_Witness ==
    /\ pc = "road" /\ events > 0
    /\ storageLayout.links.controller # NoPos
    /\ \E r \in 1..Len(requests) :
          /\ requests[r].type = "container" /\ requests[r].ok
          /\ requests[r].pos = storageLayout.controllerContainer

\* ---- the perimeter (SpecFair)

\* the passable inward neighbours of the passable boundary cells that are no
\* boundary cells themselves
PerimeterCells ==
    {c \in InwardCells : /\ ~terrainWall(c)
                         /\ c[1] \in 1..(GridMax - 1)
                         /\ c[2] \in 1..(GridMax - 1)}

\* every perimeter cell hosts a rampart or its site, or the quota is used up
PerimeterDone ==
    \/ \A c \in PerimeterCells :
          "rampart" \in StructTypesAt(c) \cup SiteTypesAt(sites, c)
    \/ CONTROLLER_STRUCTURES("rampart", rcl)
          - CountType(structs, "rampart") - CountType(sites, "rampart") <= 0

\* C39: in a behaviour in which the planners are called tick after tick and,
\* from some tick on, the room is owned, its level is at least MIN_RCL and
\* the world accepts every request, the defense passes eventually bring
\* about a state in which every perimeter cell hosts a rampart or its site,
\* or the quota of ramparts is used up: the cap on the requests of a pass
\* starves no cell.
C39_PerimeterCompletes ==
    ([]<>(pc = "defense") /\ []<>(pc = "world")
        /\ <>[](my /\ rcl >= MIN_RCL /\ siteRoom = Unlimited))
        => <>[]PerimeterDone

\* the perimeter is complete and has taken more than one pass: more ramparts
\* are built or pending than a pass may request
C39_Witness ==
    /\ pc = "world" /\ my /\ rcl >= MIN_RCL /\ siteRoom = Unlimited
    /\ PerimeterDone
    /\ CountType(structs, "rampart") + CountType(sites, "rampart")
          > MAX_BORDER_SITES_PER_TICK
    /\ Cardinality(PerimeterCells) > 0

====
